---- MODULE Spec2Model ----
(***************************************************************************)
(* DocWire: the document-revision tracking engine.                         *)
(*                                                                         *)
(* Text is modelled as sequences of tokens: a line is a sequence of        *)
(* tokens, a file content is a sequence of lines.  The markup's literal    *)
(* tokens ("=dw=", "=wd=", "=+=", ...) are tokens of their own, so that    *)
(* the regular expressions of the sources can be modelled as searches in   *)
(* token streams, and user text that contains markup tokens is parsed the  *)
(* way the sources parse it.                                               *)
(***************************************************************************)
EXTENDS Integers, Sequences, FiniteSets, TLC

\* ------------------------------------------------------------------ bounds
MaxClock == 1
MaxHist == 4
MaxEntrySize == 10
MaxRev == 3
MaxEdits == 2
MaxOps == 3

\* ------------------------------------------------------- program constants
max_lines == 50
max_line_len == 200

\* --------------------------------------------------------------- sequences
Min(S) == CHOOSE x \in S : \A y \in S : x <= y

\* least index i >= from with s[i] \in toks, or 0
IndexIn(s, toks, from) ==
    LET I == {i \in from..Len(s) : s[i] \in toks}
    IN  IF I = {} THEN 0 ELSE Min(I)

IndexOf(s, tok, from) == IndexIn(s, {tok}, from)

Slice(s, i, j) == IF j < i THEN <<>> ELSE SubSeq(s, i, j)

RECURSIVE Flatten(_)
\* '\n'.join(lines), as one token stream
Flatten(lines) ==
    IF lines = <<>> THEN <<>>
    ELSE IF Len(lines) = 1 THEN lines[1]
    ELSE lines[1] \o <<"\n">> \o Flatten(Tail(lines))

RECURSIVE SplitLines(_)
\* content.split('\n') of a token stream
SplitLines(s) ==
    LET p == IndexOf(s, "\n", 1)
    IN  IF p = 0 THEN <<s>>
        ELSE <<Slice(s, 1, p - 1)>> \o SplitLines(Slice(s, p + 1, Len(s)))

\* a text value of at most one token, as a string ('' when empty)
Str(v) == IF v = <<>> THEN "" ELSE v[1]
Txt(str) == IF str = "" THEN <<>> ELSE <<str>>

\* ---------------------------------------------------------------- bump.py
NoVersion == [base |-> "", major |-> 0, revision |-> 0]

format_version(p) ==
    IF p = NoVersion THEN "av1r1"
    ELSE p.base \o "v" \o ToString(p.major) \o "r" \o ToString(p.revision)

\* the character classes [a-z] and \d of the pattern, and str.strip()
Lower == "abcdefghijklmnopqrstuvwxyz"
Digits == "0123456789"
Char(s, i) == SubSeq(s, i, i)
InClass(class, c) == \E i \in 1..Len(class) : Char(class, i) = c
AllDigits(s) == Len(s) > 0 /\ \A i \in 1..Len(s) : InClass(Digits, Char(s, i))

RECURSIVE int(_)
int(s) ==
    IF Len(s) = 0 THEN 0
    ELSE 10 * int(SubSeq(s, 1, Len(s) - 1))
         + (CHOOSE d \in 0..9 : Char(Digits, d + 1) = Char(s, Len(s)))

RECURSIVE strip(_)
strip(s) ==
    IF Len(s) > 0 /\ Char(s, 1) \in {" ", "\n"} THEN strip(SubSeq(s, 2, Len(s)))
    ELSE IF Len(s) > 0 /\ Char(s, Len(s)) \in {" ", "\n"}
    THEN strip(SubSeq(s, 1, Len(s) - 1))
    ELSE s

\* ^([a-z])v(\d+)r(\d+)$ on the stripped text: r is the position of the "r"
version_match(s, r) ==
    /\ InClass(Lower, Char(s, 1))
    /\ Char(s, 2) = "v"
    /\ Char(s, r) = "r"
    /\ AllDigits(SubSeq(s, 3, r - 1))
    /\ AllDigits(SubSeq(s, r + 1, Len(s)))

version_groups(s, r) ==
    [base |-> Char(s, 1),
     major |-> int(SubSeq(s, 3, r - 1)),
     revision |-> int(SubSeq(s, r + 1, Len(s)))]

parse_stripped(s) ==
    IF \E r \in 4..(Len(s) - 1) : version_match(s, r)
    THEN version_groups(s, CHOOSE r \in 4..(Len(s) - 1) : version_match(s, r))
    ELSE NoVersion

parse_version(s) == IF s = "" THEN NoVersion ELSE parse_stripped(strip(s))

increment_r(s) ==
    LET p == parse_version(s)
    IN  IF p = NoVersion THEN "av1r1"
        ELSE format_version([p EXCEPT !.revision = p.revision + 1])

increment_v_keeps_revision(s) ==
    LET p == parse_version(s)
    IN  IF p = NoVersion THEN "av1r1"
        ELSE format_version([p EXCEPT !.major = p.major + 1])

increment_v(s) ==
    LET p == parse_version(s)
    IN  IF p = NoVersion THEN "av1r1"
        ELSE format_version([p EXCEPT !.major = p.major + 1, !.revision = 1])

check_rebase(old, new) ==
    LET o == parse_version(old)
        n == parse_version(new)
    IN  IF o = NoVersion \/ n = NoVersion THEN FALSE
        ELSE o.base # n.base

\* ----------------------------------------------------- documents, paths
Docs == {"a", "b"}
get_relative_path(d) == "./" \o d \o ".txt"
get_stem(d) == d
path_to_storage_name(d) == d
Ts(n) == "T" \o ToString(n)

NoFile == [ex |-> FALSE, c |-> <<>>]
File(c) == [ex |-> TRUE, c |-> c]
\* read_file: the content, '' for a missing file
read_file(f) == IF f.ex THEN f.c ELSE <<>>

\* ---------------------------------------------------------------- head.py
FieldLine(k, v) == <<"=x=", k, ";|">> \o v \o <<"|;", "=z=">>

\* create_header(filepath) followed by the blank line add_header puts
create_header(d, ts) ==
    << <<"=d=meta=w=">>,
       <<"=dw=">>,
       <<"=#=", "docwire tracked file", "|", "edit content below", "=o=">>,
       FieldLine("file", <<get_relative_path(d)>>),
       FieldLine("version", <<"av1r1">>),
       FieldLine("log", <<"./.dw/loc/" \o get_stem(d) \o ".txt">>),
       FieldLine("update", <<ts>>),
       FieldLine("refs", <<>>),
       <<"=wd=">>,
       <<"=q=meta=e=">> >>

has_header(c) ==
    LET s == Flatten(c)
        p == IndexOf(s, "=d=meta=w=", 1)
    IN  p # 0 /\ IndexOf(s, "=q=meta=e=", p + 1) # 0

\* ---------------------------------------------------------------- dwml.py
\* tokens holding a '|' character, which [^|]* does not cross
PipeTokens == {";|", "|;", "|"}
\* tokens matching \w+ (field keys)
Words == {"file", "version", "log", "update", "refs", "saves", "updated",
          "ref_versions", "archive", "tracked", "action", "archive_threshold"}

RECURSIVE StripNL(_)
\* str.strip(), on a token stream whose only whitespace is the line break
StripNL(s) ==
    IF s = <<>> THEN s
    ELSE IF Head(s) = "\n" THEN StripNL(Tail(s))
    ELSE IF s[Len(s)] = "\n" THEN StripNL(Slice(s, 1, Len(s) - 1))
    ELSE s

RECURSIVE LineSpan(_, _, _)
\* the match at the opening token at p, when its line holds a =o= after it
LineSpanAt(s, open, p, q) ==
    IF p = 0 THEN <<0, 0>>
    ELSE IF q # 0 /\ s[q] = "=o=" THEN <<p, q>>
    ELSE LineSpan(s, open, p + 1)

\* the line break or =o= that follows the opening token at p
LineSpanFrom(s, open, p) ==
    LineSpanAt(s, open, p, IF p = 0 THEN 0 ELSE IndexIn(s, {"=o=", "\n"}, p + 1))

\* search of open(.*?)=o= from position from: <<p, q>>, the places of the
\* opening token and of =o=, or <<0, 0>>; '.' does not cross a line break
LineSpan(s, open, from) == LineSpanFrom(s, open, IndexOf(s, open, from))

RECURSIVE LineSpans(_, _, _)
LineSpansAt(s, open, m) ==
    IF m[1] = 0 THEN <<>>
    ELSE <<Slice(s, m[1] + 1, m[2] - 1)>> \o LineSpans(s, open, m[2] + 1)

\* finditer of open(.*?)=o= : the matched groups, in order
LineSpans(s, open, from) == LineSpansAt(s, open, LineSpan(s, open, from))

\* CONTENT_PATTERN.search: =x=\s*(.*?)\s*=z= ; [ok, inner]
ContentSearch(s) ==
    LET Between(p) == Slice(s, p + 1, IndexOf(s, "=z=", p + 1) - 1)
        P == {p \in 1..Len(s) :
                /\ s[p] = "=x="
                /\ IndexOf(s, "=z=", p + 1) # 0
                /\ IndexOf(StripNL(Between(p)), "\n", 1) = 0}
    IN  IF P = {} THEN [ok |-> FALSE, inner |-> <<>>]
        ELSE [ok |-> TRUE, inner |-> StripNL(Between(Min(P)))]

\* the first match of VALUE_PATTERN (\w+);\|([^|]*)\|; at or after from:
\* [p, q] the places of the key and of the closing |; , p = 0 when none
ValueMatch(s, from) ==
    LET Close(p) == IndexIn(s, PipeTokens, p + 2)
        P == {p \in from..(Len(s) - 1) :
                /\ s[p] \in Words
                /\ s[p + 1] = ";|"
                /\ Close(p) # 0
                /\ s[Close(p)] = "|;"}
    IN  IF P = {} THEN [p |-> 0, q |-> 0]
        ELSE [p |-> Min(P), q |-> Close(Min(P))]

NoFields == [k \in {} |-> <<>>]
Scalar(v) == [list |-> FALSE, v |-> v]
List(vs) == [list |-> TRUE, v |-> vs]
SetField(f, k, v) == [x \in DOMAIN f \cup {k} |-> IF x = k THEN v ELSE f[x]]

\* fields[key] = value, a repeated key collecting its values in a list
AddValue(fields, key, value) ==
    SetField(fields, key,
             IF key \in DOMAIN fields
             THEN IF fields[key].list
                  THEN List(Append(fields[key].v, value))
                  ELSE List(<<fields[key].v, value>>)
             ELSE Scalar(value))

RECURSIVE parse_value_line(_, _, _)
parse_value_at(fields, s, m) ==
    IF m.p = 0 THEN fields
    ELSE parse_value_line(AddValue(fields, s[m.p], Slice(s, m.p + 2, m.q - 1)),
                          s, m.q + 1)

\* DWML._parse_value_line, first loop: key;|value|; pairs into fields
parse_value_line(fields, s, from) == parse_value_at(fields, s, ValueMatch(s, from))

RECURSIVE ValueListAll(_, _)
\* VALUE_LIST_PATTERN.findall: the groups of ;\|([^|]*)\|; at or after from
ValueListAll(s, from) ==
    LET Close(p) == IndexIn(s, PipeTokens, p + 1)
        P == {p \in from..Len(s) :
                s[p] = ";|" /\ Close(p) # 0 /\ s[Close(p)] = "|;"}
    IN  IF P = {} THEN <<>>
        ELSE <<Slice(s, Min(P) + 1, Close(Min(P)) - 1)>>
             \o ValueListAll(s, Close(Min(P)) + 1)

RECURSIVE ListEnd(_, _)
\* the end of (?:;\|[^|]*\|;,?)+ tried at p: the place after its last group
ListEnd(s, p) ==
    LET q == IF p <= Len(s) /\ s[p] = ";|" THEN IndexIn(s, PipeTokens, p + 1)
             ELSE 0
        e == IF q # 0 /\ q + 1 <= Len(s) /\ s[q + 1] = "," THEN q + 2 ELSE q + 1
    IN  IF q = 0 \/ s[q] # "|;" THEN p ELSE ListEnd(s, e)

RECURSIVE parse_list_values(_, _, _)
\* the second loop of DWML._parse_value_line: a key followed by more than
\* one ;|value|; group gets the list of the values
parse_list_values(fields, s, from) ==
    LET m == ValueMatch(s, from)
        e == ListEnd(s, m.p + 1)
        values == ValueListAll(Slice(s, m.p + 1, e - 1), 1)
    IN  IF m.p = 0 THEN fields
        ELSE parse_list_values(IF Len(values) > 1
                               THEN SetField(fields, s[m.p], List(values))
                               ELSE fields,
                               s, e)

\* DWML._parse_value_line: both loops
parse_values(fields, s) ==
    parse_list_values(parse_value_line(fields, s, 1), s, 1)

\* DWML._parse_fields, one line, c what CONTENT_PATTERN finds in it
parse_field_line(fields, line, c) ==
    IF line = <<>> \/ LineSpan(line, "=#=", 1)[1] # 0 \/ ~c.ok THEN fields
    ELSE parse_values(fields, c.inner)

RECURSIVE parse_fields(_, _)
\* DWML._parse_fields: the fields of the field lines among lines
parse_fields(fields, lines) ==
    IF lines = <<>> THEN fields
    ELSE parse_fields(parse_field_line(fields, Head(lines),
                                       ContentSearch(Head(lines))),
                      Tail(lines))

RECURSIVE RemoveContainers(_)
\* container_pattern.sub('', content): =dw=(.*?)=wd= removed
RemoveContainers(s) ==
    LET p == IndexOf(s, "=dw=", 1)
        q == IF p = 0 THEN 0 ELSE IndexOf(s, "=wd=", p + 1)
    IN  IF q = 0 THEN s
        ELSE Slice(s, 1, p - 1) \o RemoveContainers(Slice(s, q + 1, Len(s)))

\* DWML._parse_block_content: the fields of the block itself
parse_block_fields(content) ==
    parse_fields(NoFields, SplitLines(RemoveContainers(content)))

OpenTags == {"=d=meta=w=", "=d=history=w="}
CloseTag(t) ==
    IF t = "=d=meta=w=" THEN "=q=meta=e="
    ELSE IF t = "=d=config=w=" THEN "=q=config=e="
    ELSE "=q=history=e="

RECURSIVE dwml_blocks(_, _)
\* DWML._parse_content: the blocks =d=name=w=(.*?)=q=name=e= in order
dwml_blocks(s, from) ==
    LET P == {p \in from..Len(s) :
                s[p] \in OpenTags /\ IndexOf(s, CloseTag(s[p]), p + 1) # 0}
    IN  IF P = {} THEN <<>>
        ELSE LET p == Min(P)
                 q == IndexOf(s, CloseTag(s[p]), p + 1)
             IN  <<[tag |-> s[p], content |-> Slice(s, p + 1, q - 1)]>>
                 \o dwml_blocks(s, q + 1)

\* the fields of the last meta block among the blocks bs, at block level
last_meta_fields(bs) ==
    LET M == {i \in 1..Len(bs) : bs[i].tag = "=d=meta=w="}
    IN  IF M = {} THEN NoFields
        ELSE parse_block_fields(bs[CHOOSE i \in M : \A j \in M : j <= i].content)

\* parse_header: the fields of the (last) meta block, read at block level
parse_header(c) ==
    IF ~has_header(c) THEN NoFields
    ELSE last_meta_fields(dwml_blocks(Flatten(c), 1))

\* ------------------------------------------- dwml.py: the document codec
\* DWMLContainer() and DWMLBlock(name); fields is the dict, as the sequence
\* of its [k, v] items in insertion order; a block's name is written as its
\* opening tag
Container(fields, comments, added, removed, raw_lines) ==
    [fields |-> fields, comments |-> comments, added |-> added,
     removed |-> removed, raw_lines |-> raw_lines]
Block(name, fields, comments, containers, raw_lines) ==
    [name |-> name, fields |-> fields, comments |-> comments,
     containers |-> containers, raw_lines |-> raw_lines]

\* fields[key] = value on the items of a dict
block_set(items, key, value) ==
    IF \E i \in 1..Len(items) : items[i].k = key
    THEN [i \in 1..Len(items) |->
            IF items[i].k = key THEN [k |-> key, v |-> value] ELSE items[i]]
    ELSE Append(items, [k |-> key, v |-> value])

RECURSIVE set_all(_, _)
set_all(items, fields) ==
    IF fields = <<>> THEN items
    ELSE set_all(block_set(items, Head(fields).k, Head(fields).v), Tail(fields))

\* DWML.add_block(name, fields), on the blocks in block_order
add_block(doc, name, fields) ==
    Append(doc, Block(name, set_all(<<>>, fields), <<>>, <<>>, <<>>))

\* block.add_container(container) and block.comments.append(comment), on
\* the block added last
add_container(doc, container) ==
    [doc EXCEPT ![Len(doc)].containers = Append(@, container)]
add_comment(doc, comment) ==
    [doc EXCEPT ![Len(doc)].comments = Append(@, comment)]

\* the items of a dict as a mapping
FieldMap(items) ==
    [key \in {items[i].k : i \in 1..Len(items)} |->
        items[CHOOSE i \in 1..Len(items) : items[i].k = key].v]

\* ','.join(f';|{v}|;' for v in value)
values_str(vs) ==
    LET F[i \in 0..Len(vs)] ==
            IF i = 0 THEN <<>>
            ELSE F[i - 1] \o (IF i = 1 THEN <<>> ELSE <<",">>)
                 \o <<";|">> \o vs[i] \o <<"|;">>
    IN  F[Len(vs)]

render_fields(items) ==
    [i \in 1..Len(items) |->
        IF items[i].v.list
        THEN <<"=x=", items[i].k>> \o values_str(items[i].v.v) \o <<"=z=">>
        ELSE FieldLine(items[i].k, items[i].v.v)]

render_marked(open, texts) ==
    [i \in 1..Len(texts) |-> <<open>> \o texts[i] \o <<"=o=">>]

render_container(c) ==
    << <<"=dw=">> >> \o render_marked("=#=", c.comments)
    \o render_fields(c.fields) \o render_marked("=+=", c.added)
    \o render_marked("=-=", c.removed) \o << <<"=wd=">> >>

RECURSIVE render_containers(_)
render_containers(cs) ==
    IF cs = <<>> THEN <<>>
    ELSE render_container(Head(cs)) \o render_containers(Tail(cs))

render_block(b) ==
    << <<b.name>> >> \o render_marked("=#=", b.comments)
    \o render_fields(b.fields) \o render_containers(b.containers)
    \o << <<CloseTag(b.name)>> >>

RECURSIVE render_lines(_)
render_lines(doc) ==
    IF doc = <<>> THEN <<>>
    ELSE render_block(Head(doc)) \o render_lines(Tail(doc))

\* DWML.render(): '\n'.join(lines)
render(doc) == Flatten(render_lines(doc))

\* DWML._parse_container_content, one line
parse_container_line(c, line, comment, added, removed, content) ==
    IF line = <<>> THEN c
    ELSE IF comment[1] # 0
    THEN [c EXCEPT !.comments = Append(@, Slice(line, comment[1] + 1,
                                                   comment[2] - 1))]
    ELSE IF added[1] # 0
    THEN [c EXCEPT !.added = Append(@, Slice(line, added[1] + 1, added[2] - 1))]
    ELSE IF removed[1] # 0
    THEN [c EXCEPT !.removed = Append(@, Slice(line, removed[1] + 1,
                                                  removed[2] - 1))]
    ELSE IF content.ok
    THEN [c EXCEPT !.fields = parse_values(@, content.inner)]
    ELSE [c EXCEPT !.raw_lines = Append(@, line)]

RECURSIVE parse_container_lines(_, _)
parse_container_lines(c, lines) ==
    IF lines = <<>> THEN c
    ELSE parse_container_lines(
             parse_container_line(c, Head(lines), LineSpan(Head(lines), "=#=", 1),
                                  LineSpan(Head(lines), "=+=", 1),
                                  LineSpan(Head(lines), "=-=", 1),
                                  ContentSearch(Head(lines))),
             Tail(lines))

\* DWML._parse_container_content
parse_container_content(content) ==
    parse_container_lines(Container(NoFields, <<>>, <<>>, <<>>, <<>>),
                          SplitLines(content))

RECURSIVE block_containers(_)
\* container_pattern.finditer(content), each match parsed
block_containers(s) ==
    LET p == IndexOf(s, "=dw=", 1)
        q == IF p = 0 THEN 0 ELSE IndexOf(s, "=wd=", p + 1)
    IN  IF q = 0 THEN <<>>
        ELSE <<parse_container_content(Slice(s, p + 1, q - 1))>>
             \o block_containers(Slice(s, q + 1, Len(s)))

\* DWML._parse_fields on a block, one line: comment, field line or raw line
parse_block_line(b, line, comment, content) ==
    IF line = <<>> THEN b
    ELSE IF comment[1] # 0
    THEN [b EXCEPT !.comments = Append(@, Slice(line, comment[1] + 1,
                                                   comment[2] - 1))]
    ELSE IF content.ok
    THEN [b EXCEPT !.fields = parse_values(@, content.inner)]
    ELSE [b EXCEPT !.raw_lines = Append(@, line)]

RECURSIVE parse_block_lines(_, _)
parse_block_lines(b, lines) ==
    IF lines = <<>> THEN b
    ELSE parse_block_lines(
             parse_block_line(b, Head(lines), LineSpan(Head(lines), "=#=", 1),
                              ContentSearch(Head(lines))),
             Tail(lines))

\* DWML._parse_block_content: containers first, then the rest of the block
parse_block_content(name, content) ==
    parse_block_lines(Block(name, NoFields, <<>>, block_containers(content), <<>>),
                      SplitLines(RemoveContainers(content)))

\* DWML.parse(content): the blocks in block_order
parse(content) ==
    LET bs == dwml_blocks(content, 1)
    IN  [i \in 1..Len(bs) |-> parse_block_content(bs[i].tag, bs[i].content)]

\* a built document as parse returns documents: the dicts as mappings
structure(doc) ==
    [i \in 1..Len(doc) |->
        [doc[i] EXCEPT
            !.fields = FieldMap(@),
            !.containers = [j \in 1..Len(@) |->
                               [@[j] EXCEPT !.fields = FieldMap(@)]]]]

\* fields.get(key, default), as a string
FieldGet(fields, key, default) ==
    IF key \in DOMAIN fields THEN Str(fields[key].v) ELSE default

\* --------------------------------------------------------------- utils.py
Take(s, n) == IF Len(s) <= n THEN s ELSE SubSeq(s, 1, n)

RECURSIVE block_value_line(_, _, _)
block_value_at(result, s, m, all) ==
    IF m.p = 0 THEN result
    ELSE block_value_line(
             SetField(result, s[m.p],
                      IF Len(all) > 1 THEN List(all)
                      ELSE Scalar(Slice(s, m.p + 2, m.q - 1))),
             s, m.q + 1)

block_value_match(result, s, m) ==
    block_value_at(result, s, m,
                   IF m.p = 0 THEN <<>>
                   ELSE ValueListAll(s, IndexOf(s, s[m.p], 1)))

\* parse_dwml_block, one =x= ... =z= line: result[key] is the list of all
\* values from the key on when there are several, else the value
block_value_line(result, s, from) ==
    block_value_match(result, s, ValueMatch(s, from))

block_line(result, line, c) ==
    IF line = <<>> \/ Head(line) = "=#=" \/ ~c.ok THEN result
    ELSE block_value_line(result, c.inner, 1)

RECURSIVE block_lines(_, _)
block_lines(result, lines) ==
    IF lines = <<>> THEN result
    ELSE block_lines(block_line(result, Head(lines), ContentSearch(Head(lines))),
                     Tail(lines))

\* parse_dwml_block(content, name): the first =d=name=w=(.*?)=q=name=e=
parse_dwml_block(s, tag) ==
    LET p == IndexOf(s, tag, 1)
        q == IF p = 0 THEN 0 ELSE IndexOf(s, CloseTag(tag), p + 1)
    IN  IF q = 0 THEN NoFields
        ELSE block_lines(NoFields, SplitLines(Slice(s, p + 1, q - 1)))

\* format_dwml_block(name, data): data a sequence of [k, v] with v a
\* Scalar or a List
format_dwml_block(open, data) ==
    LET ListText(vs) ==
            LET F[i \in 0..Len(vs)] ==
                    IF i = 0 THEN <<>>
                    ELSE F[i - 1] \o (IF i = 1 THEN <<>> ELSE <<",">>)
                         \o <<";|">> \o vs[i] \o <<"|;">>
            IN  F[Len(vs)]
        FieldText(e) ==
            IF e.v.list THEN <<"=x=", e.k>> \o ListText(e.v.v) \o <<"=z=">>
            ELSE FieldLine(e.k, e.v.v)
    IN  <<<<open>>>> \o [i \in 1..Len(data) |-> FieldText(data[i])]
        \o <<<<CloseTag(open)>>>>

Change(type, line) == [type |-> type, line |-> line]
Entry(action, changes) == [action |-> action, changes |-> changes, comments |-> <<>>]

\* format_dwml_entry(action, changes, comments): the lines of one container
format_dwml_entry(e) ==
    <<<<"=dw=">>>>
    \o << IF Len(e.action) >= 2
          THEN <<"=x=", e.action[1], ";|">> \o Tail(e.action) \o <<"|;", "=z=">>
          ELSE <<"=x=", "action", ";|">> \o e.action \o <<"|;", "=z=">> >>
    \o [i \in 1..Len(e.changes) |->
          <<(IF e.changes[i].type = "add" THEN "=+=" ELSE "=-=")>>
          \o e.changes[i].line \o <<"=o=">>]
    \o [i \in 1..Len(e.comments) |-> <<"=#=">> \o e.comments[i] \o <<"=o=">>]
    \o <<<<"=wd=">>>>

RECURSIVE format_entries(_)
format_entries(h) ==
    IF h = <<>> THEN <<>> ELSE format_dwml_entry(Head(h)) \o format_entries(Tail(h))

\* format_dwml_history(entries): the lines of the history block
format_dwml_history(h) ==
    <<<<"=d=history=w=">>>> \o format_entries(h) \o <<<<"=q=history=e=">>>>

\* the action of a container: 'key value' when the first =x= ... =z= holds
\* key;|value|; , else what it holds
container_action(m, vals) ==
    IF ~m.ok THEN <<>>
    ELSE IF vals # <<>>
         THEN StripNL(Slice(m.inner, 1, IndexOf(m.inner, ";|", 1) - 1)) \o vals[1]
         ELSE m.inner

container_entry(m, adds, rems, comments) ==
    [action |-> container_action(m, ValueListAll(m.inner, 1)),
     changes |-> [i \in 1..Len(adds) |-> Change("add", adds[i])]
                 \o [i \in 1..Len(rems) |-> Change("rem", rems[i])],
     comments |-> comments]

\* parse_dwml_history, one container
parse_container(c) ==
    container_entry(ContentSearch(c), LineSpans(c, "=+=", 1),
                    LineSpans(c, "=-=", 1), LineSpans(c, "=#=", 1))

RECURSIVE parse_containers(_)
\* re.findall(r'=dw=(.*?)=wd=', block_content, re.DOTALL), each parsed
parse_containers(s) ==
    LET p == IndexOf(s, "=dw=", 1)
        q == IF p = 0 THEN 0 ELSE IndexOf(s, "=wd=", p + 1)
    IN  IF q = 0 THEN <<>>
        ELSE <<parse_container(Slice(s, p + 1, q - 1))>>
             \o parse_containers(Slice(s, q + 1, Len(s)))

\* parse_dwml_history(content)
parse_dwml_history(s) ==
    LET p == IndexOf(s, "=d=history=w=", 1)
        q == IF p = 0 THEN 0 ELSE IndexOf(s, "=q=history=e=", p + 1)
    IN  IF q = 0 THEN <<>> ELSE parse_containers(Slice(s, p + 1, q - 1))

\* int(text) and str(n), on the numbers the model reaches
IntRange == 0..(MaxEdits + MaxRev + MaxHist + 8)
ParseInt(tok) ==
    IF \E n \in IntRange : ToString(n) = tok
    THEN CHOOSE n \in IntRange : ToString(n) = tok
    ELSE 0

Meta(file, version, saves, updated, rv) ==
    [file |-> file, version |-> version, saves |-> saves,
     updated |-> updated, ref_versions |-> rv]
Rec(meta, history, archive) ==
    [meta |-> meta, history |-> history, archive |-> archive]
\* what read_loc gives for a missing or empty file, with the defaults every
\* reader applies to the empty meta ({}.get('version', 'av1r1'), ...)
EmptyRec == Rec(Meta("", "av1r1", 0, "", <<>>), <<>>, <<>>)

\* meta.get(key, default) of a meta dict
MetaGet(meta, key, default) ==
    IF key \in DOMAIN meta THEN meta[key] ELSE default

\* the pairs 'ref=version' of a ref_versions map
ref_pairs(rv) ==
    [i \in 1..Len(rv) |-> <<rv[i].ref, "=">> \o Txt(rv[i].ver)]

\* out_meta of write_loc: the four fields it takes from the meta, then
\* ref_versions and archive when not empty
loc_out_meta(m, pairs, archive) ==
    << [k |-> "file", v |-> Scalar(Txt(MetaGet(m, "file", "")))],
       [k |-> "version", v |-> Scalar(Txt(MetaGet(m, "version", "av1r1")))],
       [k |-> "saves", v |-> Scalar(<<ToString(MetaGet(m, "saves", 0))>>)],
       [k |-> "updated", v |-> Scalar(Txt(MetaGet(m, "updated", "")))] >>
    \o (IF pairs # <<>>
        THEN <<[k |-> "ref_versions", v |-> List(pairs)]>> ELSE <<>>)
    \o (IF archive # <<>>
        THEN <<[k |-> "archive",
                v |-> List([i \in 1..Len(archive) |-> <<archive[i]>>])]>>
        ELSE <<>>)

\* the text write_loc(path, data) writes
write_loc_text(data) ==
    Flatten(format_dwml_block("=d=meta=w=",
                loc_out_meta(data.meta,
                             ref_pairs(MetaGet(data.meta, "ref_versions", <<>>)),
                             data.archive)))
    \o (IF data.history # <<>>
        THEN <<"\n", "\n">> \o Flatten(format_dwml_history(data.history))
        ELSE <<>>)
    \o <<"\n">>

RECURSIVE SplitComma(_)
SplitComma(s) ==
    LET p == IndexOf(s, ",", 1)
    IN  IF p = 0 THEN <<s>>
        ELSE <<Slice(s, 1, p - 1)>> \o SplitComma(Slice(s, p + 1, Len(s)))

\* the values of a list field: the list, or the scalar split at commas
ListValues(f) == IF f.list THEN f.v ELSE SplitComma(f.v)

\* 'ref=ver' pairs as records, of the values that hold a '='
split_pairs(values, first, second) ==
    LET HasEq(pair) == IndexOf(pair, "=", 1) # 0
        Pair(pair, eq) ==
            [x \in {first, second} |->
                IF x = first THEN Str(Slice(pair, 1, eq - 1))
                ELSE Str(Slice(pair, eq + 1, Len(pair)))]
        Each(pairs) == [i \in 1..Len(pairs) |->
                          Pair(pairs[i], IndexOf(pairs[i], "=", 1))]
    IN  Each(SelectSeq(values, HasEq))

\* data['archive'] of read_loc
archive_list(raw) ==
    LET NonEmpty(a) == a # <<>>
        Strs(arch) == [i \in 1..Len(arch) |-> Str(arch[i])]
    IN  IF "archive" \notin DOMAIN raw THEN <<>>
        ELSE IF raw["archive"].list THEN Strs(raw["archive"].v)
        ELSE Strs(SelectSeq(SplitComma(raw["archive"].v), NonEmpty))

\* read_loc, of the parsed meta block and the parsed history
loc_record(raw, history) ==
    Rec(Meta(FieldGet(raw, "file", ""),
             FieldGet(raw, "version", "av1r1"),
             IF FieldGet(raw, "saves", "") = "" THEN 0
             ELSE ParseInt(FieldGet(raw, "saves", "")),
             FieldGet(raw, "updated", ""),
             IF "ref_versions" \in DOMAIN raw
             THEN split_pairs(ListValues(raw["ref_versions"]), "ref", "ver")
             ELSE <<>>),
        history, archive_list(raw))

\* read_loc(path), of the text of an existing non-empty file
read_loc_text(s) ==
    loc_record(parse_dwml_block(s, "=d=meta=w="), parse_dwml_history(s))

\* the record a file holds after write_loc(path, data), as read_loc reads it
Stored(data) == read_loc_text(write_loc_text(data))

\* ------------------------------------------------------ utils.py: config
\* the archive threshold read_config gives when config.txt holds none
default_archive_threshold == 100

\* .dw/config.txt: absent (or empty), or a config block with one
\* archive_threshold field
NoConfig == <<>>
ConfigText(value) ==
    Flatten(<< <<"=d=config=w=">>,
               FieldLine("archive_threshold", <<value>>),
               <<"=q=config=e=">> >>) \o <<"\n">>
ConfigFiles ==
    {NoConfig, ConfigText("0"), ConfigText("1"), ConfigText("2"), ConfigText("x")}

\* int(text) succeeds
IsInt(tok) == \E n \in IntRange : ToString(n) = tok

\* read_config()['archive_threshold'], of the parsed config block
config_threshold(raw) ==
    IF "archive_threshold" \in DOMAIN raw
    THEN IF IsInt(FieldGet(raw, "archive_threshold", ""))
         THEN ParseInt(FieldGet(raw, "archive_threshold", ""))
         ELSE default_archive_threshold
    ELSE default_archive_threshold

\* read_config().get('archive_threshold', 100), of the content of config.txt
read_config(content) ==
    IF content = <<>> THEN default_archive_threshold
    ELSE config_threshold(parse_dwml_block(content, "=d=config=w="))

\* ---------------------------------------------------------------- diff.py
RECURSIVE MatchLen(_, _, _, _, _, _)
\* the length of the longest common run of a from i and b from j
MatchLen(a, i, ahi, b, j, bhi) ==
    IF i > ahi \/ j > bhi \/ a[i] # b[j] THEN 0
    ELSE 1 + MatchLen(a, i + 1, ahi, b, j + 1, bhi)

\* SequenceMatcher.find_longest_match: the longest matching block, the
\* earliest in a and then the earliest in b among the longest; k = 0: none
find_longest_match(a, alo, ahi, b, blo, bhi) ==
    LET C == {<<i, j>> \in (alo..ahi) \X (blo..bhi) : a[i] = b[j]}
        L(c) == MatchLen(a, c[1], ahi, b, c[2], bhi)
    IN  IF C = {} THEN [i |-> 0, j |-> 0, k |-> 0]
        ELSE LET best == CHOOSE c \in C :
                            \A o \in C :
                               \/ L(o) < L(c)
                               \/ L(o) = L(c) /\ c[1] < o[1]
                               \/ L(o) = L(c) /\ c[1] = o[1] /\ c[2] <= o[2]
             IN  [i |-> best[1], j |-> best[2], k |-> L(best)]

RECURSIVE DiffRange(_, _, _, _, _, _)
DiffAround(a, alo, ahi, b, blo, bhi, m) ==
    IF m.k = 0
    THEN [added |-> Slice(b, blo, bhi), removed |-> Slice(a, alo, ahi)]
    ELSE [x \in {"added", "removed"} |->
            DiffRange(a, alo, m.i - 1, b, blo, m.j - 1)[x]
            \o DiffRange(a, m.i + m.k, ahi, b, m.j + m.k, bhi)[x]]

\* Differ.compare: the '+ ' lines (added) and the '- ' lines (removed)
DiffRange(a, alo, ahi, b, blo, bhi) ==
    DiffAround(a, alo, ahi, b, blo, bhi,
               find_longest_match(a, alo, ahi, b, blo, bhi))

\* a calc_diff that reports every old line removed and every new line added
calc_diff_replaces(old, new) == [added |-> new, removed |-> old]

calc_diff(old, new) == DiffRange(old, 1, Len(old), new, 1, Len(new))

has_diff(d) == Len(d.added) > 0 \/ Len(d.removed) > 0

\* a has_changes that reports a change whatever the contents
has_changes_always(old, new) == TRUE

has_changes(old, new) == has_diff(calc_diff(old, new))

\* ---------------------------------------------------------------- head.py
\* the first place at or after from that is not a line break (\s*)
SkipNL(s, from) ==
    LET I == {i \in from..Len(s) : s[i] # "\n"}
    IN  IF I = {} THEN Len(s) + 1 ELSE Min(I)

\* the first match of =x=\s*{field};\|[^|]*\|;\s*=z= at or after from:
\* [p, v, q] the places of =x=, of the opening ;| and of =z= ; p = 0: none
FieldMatch(s, field, from) ==
    LET Key(p) == SkipNL(s, p + 1)
        Close(p) == IndexIn(s, PipeTokens, Key(p) + 2)
        End(p) == SkipNL(s, Close(p) + 1)
        P == {p \in from..Len(s) :
                /\ s[p] = "=x="
                /\ Key(p) < Len(s)
                /\ s[Key(p)] = field
                /\ s[Key(p) + 1] = ";|"
                /\ Close(p) # 0
                /\ s[Close(p)] = "|;"
                /\ End(p) <= Len(s)
                /\ s[End(p)] = "=z="}
    IN  IF P = {} THEN [p |-> 0, v |-> 0, q |-> 0]
        ELSE [p |-> Min(P), v |-> Key(Min(P)) + 1, q |-> End(Min(P))]

RECURSIVE SubField(_, _, _, _)
\* re.sub(field_pattern, new_field_line, content), from a place on
SubField(s, field, value, from) ==
    LET m == FieldMatch(s, field, from)
    IN  IF m.p = 0 THEN Slice(s, from, Len(s))
        ELSE Slice(s, from, m.p - 1) \o FieldLine(field, value)
             \o SubField(s, field, value, m.q + 1)

\* str.splitlines() of a token stream
ToLines(s) ==
    IF s = <<>> THEN <<>>
    ELSE IF s[Len(s)] = "\n" THEN SplitLines(Slice(s, 1, Len(s) - 1))
    ELSE SplitLines(s)

\* update_field(content, field, value): the new content
update_field(c, field, value) ==
    IF ~has_header(c) THEN c
    ELSE LET s == Flatten(c)
             w == IndexOf(s, "=wd=", 1)
         IN  IF FieldMatch(s, field, 1).p # 0
             THEN ToLines(SubField(s, field, value, 1))
             ELSE IF w = 0 THEN c
             ELSE ToLines(Slice(s, 1, w - 1) \o FieldLine(field, value)
                          \o <<"\n">> \o Slice(s, w, Len(s)))

\* ------------------------------------------------- what users write
X == <<"x">>
Y == <<"y">>
\* a line of prose that holds one of the markup's tokens
W == <<"p", "=-=", "q">>

\* a header written by hand: the fields directly in the block
FlatHeader(version, refs) ==
    << <<"=d=meta=w=">> >>
    \o (IF version = "" THEN <<>> ELSE <<FieldLine("version", <<version>>)>>)
    \o (IF refs = "" THEN <<>> ELSE <<FieldLine("refs", <<refs>>)>>)
    \o << <<"=q=meta=e=">> >>

\* header + "\n\n" + content, as add_header lays a document out
WithHeader(header, body) == header \o << <<>> >> \o body

\* the contents a user gives a document
UserContents(d) ==
    IF d = "a"
    THEN { <<X>>,
           WithHeader(create_header(d, Ts(0)), <<X>>),
           WithHeader(create_header(d, Ts(0)), <<X, Y>>),
           WithHeader(update_field(create_header(d, Ts(0)), "version", <<"av1r2">>), <<X>>),
           WithHeader(FlatHeader("av1r1", ""), <<X>>),
           WithHeader(FlatHeader("av1r1", ""), <<X, W>>),
           WithHeader(FlatHeader("", "./b.txt"), <<X>>),
           WithHeader(FlatHeader("bv1r1", ""), <<X>>) }
    ELSE { WithHeader(FlatHeader("av1r2", ""), <<X>>) }

\* ------------------------------------------------------------- the state
VARIABLES
    docs,    \* the documents of the working folder: d -> file
    snp,     \* .dw/snp : storage name -> file (Snapshot)
    loc,     \* .dw/loc : storage name -> record file
    acv,     \* .dw/acv : <<stem, second>> -> record file
    index,   \* .dw/index.txt
    clock,   \* the second the wall clock shows
    edits,   \* how many times users have touched the documents
    ops,     \* how many operations of the engine have run
    moved,   \* the pending move event <<src, dest>>, or <<>>
    pid_file,\* .dw/glb/dw.pid: the pid it holds, 0 when the file is absent
    procs,   \* the watcher processes: pid -> where the process is
    saving,  \* what a _process_save under way has read, or <<>>
    st_mtime,\* the documents and Snapshots from the oldest write to the newest
    poking,  \* what a trigger_save under way has read: <<path, content>>, or <<>>
    notified,\* the documents with a modification event waiting in the observer
    last     \* the operation that ran last: [op, doc, out]

vars == <<docs, snp, loc, acv, index, clock, edits, ops, moved,
          pid_file, procs, saving, st_mtime, poking, notified, last>>
\* the processes and what they have in flight
runtime == <<pid_file, procs, saving, st_mtime, poking, notified>>
\* what the fallback poll and the observer go by
watched == <<st_mtime, poking, notified>>

Orders == {<<"a", "b">>, <<"b", "a">>}

\* the process ids the watchers of the folder get
MaxPids == 2
Pids == 1..MaxPids
\* a process that does not exist: no thread, nothing in flight
NoProcess ==
    [pc |-> "none", observer |-> FALSE, signalled |-> FALSE, events |-> 0,
     poll |-> "off", poll_stop |-> FALSE, stopped |-> FALSE]
AcvNames == Docs \X (0..(MaxClock + 1))

NoRec == [ex |-> FALSE, data |-> EmptyRec]
\* no side-file
NoAcv == [ex |-> FALSE, data |-> EmptyRec, raw |-> NoFields]
\* read_loc(path): the record, the empty default for a missing file
read_loc(f) == IF f.ex THEN f.data ELSE EmptyRec
\* the file write_loc(path, data) leaves
write_loc(data) == [ex |-> TRUE, data |-> Stored(data)]

\* get_timestamp() and get_timestamp_compact(): one-second resolution
get_timestamp == Ts(clock)
get_timestamp_compact == clock

\* the document a relative path names, "" when none
DocOfPath(path) ==
    IF \E d \in Docs : get_relative_path(d) = path
    THEN CHOOSE d \in Docs : get_relative_path(d) = path
    ELSE ""

\* what the last step did: the operation, the document or record it was
\* about, its outcome and, for a scan or a fix, the config file it read,
\* the threshold it took from it, the issues scan_issues returned and the
\* counts auto_fix returned
Report(op, d, out, config, threshold, issues, fixed, skipped) ==
    [op |-> op, doc |-> d, out |-> out, config |-> config,
     threshold |-> threshold, issues |-> issues,
     fixed |-> fixed, skipped |-> skipped]
Did(op, d, out) == Report(op, d, out, <<>>, 0, <<>>, 0, 0)

\* the caps that keep the state space finite
Bounded(l) ==
    \A d \in Docs :
        /\ Len(l[d].data.history) <= MaxHist
        /\ \A i \in 1..Len(l[d].data.history) :
              Len(l[d].data.history[i].changes)
              + Len(l[d].data.history[i].comments) <= MaxEntrySize

Init ==
    /\ docs = [d \in Docs |-> NoFile]
    /\ snp = [d \in Docs |-> NoFile]
    /\ loc = [d \in Docs |-> NoRec]
    /\ acv = [n \in AcvNames |-> NoAcv]
    /\ index = [ex |-> FALSE, tracked |-> <<>>]
    /\ clock = 0
    /\ edits = 0
    /\ ops = 0
    /\ moved = <<>>
    /\ pid_file = 0
    /\ procs = [p \in Pids |-> NoProcess]
    /\ saving = <<>>
    /\ st_mtime = <<>>
    /\ poking = <<>>
    /\ notified = {}
    /\ last = Did("none", "", "")

\* ------------------------------------------------------- the environment
Tick ==
    /\ UNCHANGED runtime
    /\ clock < MaxClock
    /\ clock' = clock + 1
    /\ last' = Did("tick", "", "")
    /\ UNCHANGED <<docs, snp, loc, acv, index, edits, ops, moved>>

UserWrite(d, c) ==
    /\ UNCHANGED runtime
    /\ edits < MaxEdits
    /\ docs[d] # File(c)
    /\ docs' = [docs EXCEPT ![d] = File(c)]
    /\ edits' = edits + 1
    /\ last' = Did("user", d, "write")
    /\ UNCHANGED <<snp, loc, acv, index, clock, ops, moved>>

UserDelete(d) ==
    /\ UNCHANGED runtime
    /\ edits < MaxEdits
    /\ docs[d].ex
    /\ docs' = [docs EXCEPT ![d] = NoFile]
    /\ edits' = edits + 1
    /\ last' = Did("user", d, "delete")
    /\ UNCHANGED <<snp, loc, acv, index, clock, ops, moved>>

UserMove(src, dest) ==
    /\ UNCHANGED runtime
    /\ edits < MaxEdits
    /\ src # dest
    /\ docs[src].ex
    /\ ~docs[dest].ex
    /\ moved = <<>>
    /\ docs' = [docs EXCEPT ![src] = NoFile, ![dest] = docs[src]]
    /\ moved' = <<src, dest>>
    /\ edits' = edits + 1
    /\ last' = Did("user", src, "move")
    /\ UNCHANGED <<snp, loc, acv, index, clock, ops>>

\* the lines of a document up to the end of its header block
header_lines(c) ==
    LET I == {i \in 1..Len(c) : c[i] = <<"=q=meta=e=">>}
    IN  IF I = {} THEN <<>> ELSE Take(c, Min(I))

\* an edit of the text below the header, the header left as it is
UserEditBody(d, body) ==
    /\ UNCHANGED runtime
    /\ edits < MaxEdits
    /\ docs[d].ex
    /\ has_header(docs[d].c)
    /\ docs[d] # File(WithHeader(header_lines(docs[d].c), body))
    /\ docs' = [docs EXCEPT ![d] = File(WithHeader(header_lines(docs[d].c), body))]
    /\ edits' = edits + 1
    /\ last' = Did("user", d, "body")
    /\ UNCHANGED <<snp, loc, acv, index, clock, ops, moved>>

\* a hand edit of the version line of a document's header
UserSetVersion(d, v) ==
    /\ UNCHANGED runtime
    /\ docs[d].ex
    /\ update_field(docs[d].c, "version", <<v>>) # docs[d].c
    /\ docs' = [docs EXCEPT ![d] = File(update_field(docs[d].c, "version", <<v>>))]
    /\ last' = Did("user", d, "version")
    /\ UNCHANGED <<snp, loc, acv, index, clock, edits, ops, moved>>

\* ----------------------------------------------------------------- watch.py
\* an upper bound of the characters of a token of the model
TokenChars == 20
\* line[:max_line_len]
Trunc(line) ==
    IF Len(line) * TokenChars <= max_line_len THEN line
    ELSE Take(line, max_line_len \div TokenChars)

\* the changes list _process_save builds of a diff
save_changes(diff_result) ==
    LET added == Take(diff_result.added, max_lines)
        removed == Take(diff_result.removed, max_lines)
    IN  [i \in 1..Len(added) |-> Change("add", Trunc(added[i]))]
        \o [i \in 1..Len(removed) |-> Change("rem", Trunc(removed[i]))]

\* the record _process_save hands to write_loc
save_record(d, loc_data, header_version, ts, saves, changes) ==
    Rec([loc_data.meta EXCEPT !.saves = saves, !.updated = ts,
                              !.file = get_relative_path(d),
                              !.version = header_version],
        Append(loc_data.history,
               Entry(<<ts, "save:" \o ToString(saves)>>, changes)),
        loc_data.archive)

\* _process_save, after the header has been read
process_save(d, current_content, header_version, snp_content, loc_data, ts, saves) ==
    IF ~has_header(current_content)
    THEN /\ last' = Did("save", d, "no header")
         /\ UNCHANGED <<docs, snp, loc, acv, index, clock, edits, moved>>
    ELSE IF check_rebase(loc_data.meta.version, header_version)
    \* the name stem is not bound: NameError, before anything is written
    THEN /\ last' = Did("save", d, "NameError")
         /\ UNCHANGED <<docs, snp, loc, acv, index, clock, edits, moved>>
    ELSE IF ~has_changes(snp_content, current_content)
    THEN /\ last' = Did("save", d, "no changes")
         /\ UNCHANGED <<docs, snp, loc, acv, index, clock, edits, moved>>
    ELSE /\ loc' = [loc EXCEPT ![d] = write_loc(
                      save_record(d, loc_data, header_version, ts, saves,
                                  save_changes(calc_diff(snp_content,
                                                         current_content))))]
         /\ snp' = [snp EXCEPT ![d] = File(current_content)]
         /\ Bounded(loc')
         /\ last' = Did("save", d, "saved")
         /\ UNCHANGED <<docs, acv, index, clock, edits, moved>>

\* on_modified -> _is_tracked_file -> _process_save
OnModified(d) ==
    /\ UNCHANGED runtime
    /\ ops < MaxOps
    /\ ops' = ops + 1
    /\ process_save(d, read_file(docs[d]),
                    FieldGet(parse_header(read_file(docs[d])), "version", "av1r1"),
                    read_file(snp[d]), read_loc(loc[d]), get_timestamp,
                    read_loc(loc[d]).meta.saves + 1)

\* write_file(path, content) cut short: open(path, 'w') has emptied the
\* file and the first `written` tokens of the content have reached it
write_file_cut(content, written) == Take(content, written)

\* the record file a write_loc(path, data) cut short leaves, as read_loc
\* reads it afterwards (the empty default for an empty file)
write_loc_cut(data, written) ==
    [ex |-> TRUE,
     data |-> IF written = 0 THEN EmptyRec
              ELSE read_loc_text(write_file_cut(write_loc_text(data), written))]

\* does _process_save reach its write_loc
save_writes(current_content, header_version, snp_content, loc_data) ==
    /\ has_header(current_content)
    /\ ~check_rebase(loc_data.meta.version, header_version)
    /\ has_changes(snp_content, current_content)

\* the record _process_save writes for the document d, of what it reads
save_data(d) ==
    save_record(d, read_loc(loc[d]),
                FieldGet(parse_header(read_file(docs[d])), "version", "av1r1"),
                get_timestamp, read_loc(loc[d]).meta.saves + 1,
                save_changes(calc_diff(read_file(snp[d]), read_file(docs[d]))))

\* on_modified -> _process_save, the process killed (or the machine
\* stopped) inside the write_file of write_loc, watch.py 175
OnModifiedKilled(d, written) ==
    /\ UNCHANGED runtime
    /\ ops < MaxOps
    /\ ops' = ops + 1
    /\ save_writes(read_file(docs[d]),
                   FieldGet(parse_header(read_file(docs[d])), "version", "av1r1"),
                   read_file(snp[d]), read_loc(loc[d]))
    /\ written < Len(write_loc_text(save_data(d)))
    /\ loc' = [loc EXCEPT ![d] = write_loc_cut(save_data(d), written)]
    /\ Bounded(loc')
    /\ last' = Did("save", d, "killed")
    /\ UNCHANGED <<docs, snp, acv, index, clock, edits, moved>>

\* the calls of _process_save that open a file, in order
SaveCalls == <<"read_file", "write_loc", "write_file">>

\* on_modified -> _process_save, the open() of the call `at` refused by the
\* file system (PermissionError, a transient lock): nothing catches it
\* between open() and the observer thread, and what was written before it
\* stays written
OnModifiedFails(d, at) ==
    /\ UNCHANGED runtime
    /\ ops < MaxOps
    /\ ops' = ops + 1
    /\ at \in {SaveCalls[i] : i \in 1..Len(SaveCalls)}
    /\ docs[d].ex
    /\ at # "read_file" =>
          save_writes(read_file(docs[d]),
                      FieldGet(parse_header(read_file(docs[d])), "version", "av1r1"),
                      read_file(snp[d]), read_loc(loc[d]))
    /\ loc' = IF at = "write_file"
              THEN [loc EXCEPT ![d] = write_loc(save_data(d))]
              ELSE loc
    /\ Bounded(loc')
    /\ last' = Did("save", d, "OSError in " \o at)
    /\ UNCHANGED <<docs, snp, acv, index, clock, edits, moved>>

\* _process_save up to its last read (watch.py 103-126): what it has read
\* of the document, the Snapshot and the record, and the time it took
Reading(d) ==
    [doc |-> d,
     current_content |-> read_file(docs[d]),
     header_version |-> FieldGet(parse_header(read_file(docs[d])), "version", "av1r1"),
     snp_content |-> read_file(snp[d]),
     loc_data |-> read_loc(loc[d]),
     ts |-> get_timestamp]

\* on_modified -> _process_save, the reads.  No lock is taken: the command
\* line runs in another process and may rewrite the record before the save
\* writes it
save_read(d) ==
    /\ ops < MaxOps
    /\ ops' = ops + 1
    /\ saving = <<>>
    /\ docs[d].ex
    /\ saving' = Reading(d)
    /\ last' = Did("save", d, "read")
    /\ UNCHANGED <<docs, snp, loc, acv, index, clock, edits, moved, pid_file, procs>>
    /\ UNCHANGED watched

\* _process_save, from the rebase check to the writes (watch.py 128-185),
\* of what the save has read
save_write ==
    /\ saving # <<>>
    /\ saving' = <<>>
    /\ process_save(saving.doc, saving.current_content, saving.header_version,
                    saving.snp_content, saving.loc_data, saving.ts,
                    saving.loc_data.meta.saves + 1)
    /\ UNCHANGED <<ops, pid_file, procs>>
    /\ UNCHANGED watched

\* the record init_file, cmd_init and do_sync_repair create
initial_record(d, content, ts) ==
    Rec(Meta(get_relative_path(d),
             FieldGet(parse_header(content), "version", "av1r1"), 0, ts, <<>>),
        <<Entry(<<ts, "initialized">>, <<>>)>>, <<>>)

\* on_created -> _is_tracked_file -> cli.init_file
OnCreated(d) ==
    /\ UNCHANGED runtime
    /\ ops < MaxOps
    /\ ops' = ops + 1
    /\ LET content == read_file(docs[d])
       IN  /\ IF has_header(content) /\ ~loc[d].ex
              THEN /\ loc' = [loc EXCEPT ![d] =
                                write_loc(initial_record(d, content, get_timestamp))]
                   /\ last' = Did("create", d, "initialized")
              ELSE /\ loc' = loc
                   /\ last' = Did("create", d,
                                  IF has_header(content) THEN "exists" ELSE "no header")
           /\ UNCHANGED <<docs, snp, acv, index, clock, edits, moved>>

\* on_moved -> _process_move.  Path.rename onto an existing file replaces
\* it on POSIX and raises FileExistsError on Windows: replace tells which
OnMoved(replace) ==
    /\ UNCHANGED runtime
    /\ ops < MaxOps
    /\ ops' = ops + 1
    /\ moved # <<>>
    /\ LET src == moved[1]
           dest == moved[2]
           snp_fails == snp[src].ex /\ snp[dest].ex /\ ~replace
           loc_fails == loc[src].ex /\ loc[dest].ex /\ ~replace
           loc_data == read_loc(loc[src])
           ts == get_timestamp
           entry == Entry(<<ts, "renamed " \o get_relative_path(src) \o " -> "
                                \o get_relative_path(dest)>>, <<>>)
           new == Rec([loc_data.meta EXCEPT !.file = get_relative_path(dest)],
                      Append(loc_data.history, entry), loc_data.archive)
       IN  /\ snp' = IF snp[src].ex /\ ~snp_fails
                     THEN [snp EXCEPT ![src] = NoFile, ![dest] = snp[src]]
                     ELSE snp
           /\ loc' = IF loc[src].ex /\ ~snp_fails /\ ~loc_fails
                     THEN [loc EXCEPT ![src] = NoRec, ![dest] = write_loc(new)]
                     ELSE loc
           /\ last' = Did("rename", dest,
                          IF snp_fails \/ loc_fails THEN "FileExistsError"
                          ELSE IF loc[src].ex THEN "renamed" ELSE "no record")
    /\ Bounded(loc')
    /\ moved' = <<>>
    /\ UNCHANGED <<docs, acv, index, clock, edits>>

\* --------------------------------------------------------- atomic.py, poke.py
\* the modification times the file system may show for a file
MaxMtime == 2
Mtimes == 1..MaxMtime

\* get_file_stats: len(content.split('\n')) if content else 0
line_count(content) == IF Flatten(content) = <<>> THEN 0 ELSE Len(content)

\* get_most_recent_file over get_txt_files() in the order `files`: the first
\* trackable document whose mtime is above every earlier one, "" for None
RECURSIVE most_recent_file(_, _, _, _)
most_recent_file(files, mtime, most_recent, most_recent_mtime) ==
    IF files = <<>> THEN most_recent
    ELSE LET txt_path == Head(files)
         IN  IF /\ docs[txt_path].ex
                /\ has_header(read_file(docs[txt_path]))
                /\ mtime[txt_path] > most_recent_mtime
             THEN most_recent_file(Tail(files), mtime, txt_path, mtime[txt_path])
             ELSE most_recent_file(Tail(files), mtime, most_recent, most_recent_mtime)

get_most_recent_file(files, mtime) == most_recent_file(files, mtime, "", 0)

\* a check that reports a change for every document that has a Snapshot
check_file_always(txt_path, txt_mtime, snp_mtime) ==
    snp[txt_path].ex /\ docs[txt_path].ex

\* check_file: the document is newer than its Snapshot or differs from it
\* in the number of lines
check_file(txt_path, txt_mtime, snp_mtime) ==
    /\ snp[txt_path].ex
    /\ docs[txt_path].ex
    /\ \/ txt_mtime > snp_mtime
       \/ line_count(read_file(docs[txt_path])) # line_count(read_file(snp[txt_path]))

\* what a tick of the poll did: the document it chose, the times it saw
\* and the write it made, <<path, content>> or <<>>
Polled(recent_file, mtime, snp_mtime, written) ==
    [op |-> "poll", doc |-> recent_file,
     out |-> IF written = <<>> THEN "idle" ELSE "poked",
     mtime |-> mtime, snp_mtime |-> snp_mtime, written |-> written]

\* poke.trigger_save: read the document and write the same content back
trigger_save(file_path) ==
    IF docs[file_path].ex THEN <<file_path, read_file(docs[file_path])>> ELSE <<>>

\* one iteration of poll_loop
poll_loop(recent_file, mtime, snp_mtime) ==
    LET written == IF recent_file # "" /\ check_file(recent_file, mtime[recent_file], snp_mtime)
                   THEN trigger_save(recent_file)
                   ELSE <<>>
    IN  /\ docs' = IF written = <<>> THEN docs
                   ELSE [docs EXCEPT ![written[1]] = File(written[2])]
        /\ last' = Polled(recent_file, mtime, snp_mtime, written)
        /\ UNCHANGED <<snp, loc, acv, index, clock, edits, moved>>

pollTick(files, mtime, snp_mtime) ==
    /\ UNCHANGED runtime
    /\ ops < MaxOps
    /\ ops' = ops + 1
    /\ poll_loop(get_most_recent_file(files, mtime), mtime, snp_mtime)


\* a bump that leaves the count of saves as it is
bump_record_keeps_saves(st, key, loc_data, new_version, txt) ==
    IF ~st.loc[key].ex \/ loc_data.meta.saves <= 0 THEN st
    ELSE [loc |-> [st.loc EXCEPT ![key] = write_loc(
                     Rec([loc_data.meta EXCEPT !.version = new_version],
                         Append(loc_data.history,
                                Entry(<<get_timestamp, "bumped " \o new_version>>,
                                      <<>>)),
                         loc_data.archive))],
          docs |-> IF txt # "" /\ st.docs[txt].ex
                   THEN [st.docs EXCEPT ![txt] =
                           File(update_field(st.docs[txt].c, "version",
                                             <<new_version>>))]
                   ELSE st.docs]

\* do_bump, one record of the loop: st = [docs, loc]
bump_record(st, key, loc_data, new_version, txt) ==
    IF ~st.loc[key].ex \/ loc_data.meta.saves <= 0 THEN st
    ELSE [loc |-> [st.loc EXCEPT ![key] = write_loc(
                     Rec([loc_data.meta EXCEPT !.version = new_version, !.saves = 0],
                         Append(loc_data.history,
                                Entry(<<get_timestamp, "bumped " \o new_version>>,
                                      <<>>)),
                         loc_data.archive))],
          docs |-> IF txt # "" /\ st.docs[txt].ex
                   THEN [st.docs EXCEPT ![txt] =
                           File(update_field(st.docs[txt].c, "version",
                                             <<new_version>>))]
                   ELSE st.docs]

bump_one(st, key) ==
    bump_record(st, key, read_loc(st.loc[key]),
                increment_r(read_loc(st.loc[key]).meta.version),
                DocOfPath(read_loc(st.loc[key]).meta.file))

RECURSIVE bump_loop(_, _)
bump_loop(st, loc_files) ==
    IF loc_files = <<>> THEN st
    ELSE bump_loop(bump_one(st, Head(loc_files)), Tail(loc_files))

bumped(loc_files, st) ==
    /\ docs' = st.docs
    /\ loc' = st.loc
    /\ Bounded(loc')
    /\ last' = Did("bump", IF Len(loc_files) = 1 THEN loc_files[1] ELSE "",
                   IF st.loc = loc THEN "nothing" ELSE "bumped")
    /\ UNCHANGED <<snp, acv, index, clock, edits, moved>>

\* do_bump(file_path) with loc_files the record of one document, or
\* do_bump() with loc_files the records in the order glob gives them
do_bump(loc_files) ==
    /\ UNCHANGED runtime
    /\ ops < MaxOps
    /\ ops' = ops + 1
    /\ \A i \in 1..Len(loc_files) :
          parse_version(loc[loc_files[i]].data.meta.version).revision <= MaxRev
    /\ bumped(loc_files, bump_loop([docs |-> docs, loc |-> loc], loc_files))

\* ------------------------------------------------------------------ sync.py
RECURSIVE ref_lookup(_, _, _, _)
\* get_ref_versions(dw_path).get(ref, default): the version of the last
\* record, in the order glob gives them, whose meta.file is ref
ref_lookup(l, loc_files, ref, default) ==
    IF loc_files = <<>> THEN default
    ELSE LET m == read_loc(l[Head(loc_files)]).meta
         IN  ref_lookup(l, Tail(loc_files), ref,
                        IF l[Head(loc_files)].ex /\ m.file # "" /\ m.file = ref
                        THEN m.version ELSE default)

\* parse_refs(refs_string), of a value that holds no '|'
parse_refs(refs_string) == IF refs_string = "" THEN <<>> ELSE <<refs_string>>

\* read_index, of the parsed meta block of the index file
index_tracked(meta) ==
    IF "tracked" \in DOMAIN meta
    THEN split_pairs(ListValues(meta["tracked"]), "file", "version")
    ELSE <<>>

\* the text write_index(tracked) writes
write_index_text(tracked) ==
    Flatten(format_dwml_block("=d=meta=w=",
        <<[k |-> "tracked",
           v |-> List([i \in 1..Len(tracked) |->
                         <<tracked[i].file, "=">> \o Txt(tracked[i].version)])]>>))
    \o <<"\n">>

\* the index file write_index(tracked) leaves, as read_index reads it
write_index(tracked) ==
    [ex |-> TRUE,
     tracked |-> index_tracked(parse_dwml_block(write_index_text(tracked),
                                                "=d=meta=w="))]

\* do_sync, one document of the first loop: st = [loc, tracked]
sync_record(st, d, loc_files, fields, loc_data, refs) ==
    [loc |-> [st.loc EXCEPT ![d] = write_loc(
         Rec([loc_data.meta EXCEPT
                !.file = get_relative_path(d),
                !.version = FieldGet(fields, "version", loc_data.meta.version),
                !.ref_versions =
                    IF refs # <<>>
                    THEN [i \in 1..Len(refs) |->
                            [ref |-> refs[i],
                             ver |-> ref_lookup(st.loc, loc_files, refs[i],
                                                "unknown")]]
                    ELSE @],
             loc_data.history, loc_data.archive))],
     tracked |-> Append(st.tracked,
                        [file |-> get_relative_path(d),
                         version |-> FieldGet(fields, "version", "av1r1")])]

sync_fields(st, d, loc_files, fields) ==
    sync_record(st, d, loc_files, fields, read_loc(st.loc[d]),
                parse_refs(FieldGet(fields, "refs", "")))

sync_one(st, d, loc_files) ==
    IF ~docs[d].ex \/ ~has_header(read_file(docs[d])) \/ ~st.loc[d].ex THEN st
    ELSE sync_fields(st, d, loc_files, parse_header(read_file(docs[d])))

RECURSIVE sync_loop(_, _, _)
sync_loop(st, txt_files, loc_files) ==
    IF txt_files = <<>> THEN st
    ELSE sync_loop(sync_one(st, Head(txt_files), loc_files),
                   Tail(txt_files), loc_files)

\* do_sync(): txt_files and loc_files are the orders in which glob gives
\* the documents and the records
sync_result(l, txt_files, loc_files) ==
    sync_loop([loc |-> l, tracked |-> <<>>], txt_files, loc_files)

synced(st, op, out) ==
    /\ loc' = st.loc
    /\ index' = write_index(st.tracked)
    /\ Bounded(loc')
    /\ last' = Did(op, "", out)

do_sync(txt_files, loc_files) ==
    /\ UNCHANGED runtime
    /\ ops < MaxOps
    /\ ops' = ops + 1
    /\ synced(sync_result(loc, txt_files, loc_files), "sync", "synced")
    /\ UNCHANGED <<docs, snp, acv, clock, edits, moved>>

\* do_sync_repair, the loop: the Snapshot and the record of every document
\* with a header that misses one
repair_snp ==
    [d \in Docs |->
        IF docs[d].ex /\ has_header(read_file(docs[d])) /\ ~snp[d].ex
        THEN File(read_file(docs[d])) ELSE snp[d]]

repair_loc ==
    [d \in Docs |->
        IF docs[d].ex /\ has_header(read_file(docs[d])) /\ ~loc[d].ex
        THEN write_loc(initial_record(d, read_file(docs[d]), get_timestamp))
        ELSE loc[d]]

repaired(snp1, loc1, txt_files, loc_files) ==
    /\ snp' = snp1
    /\ synced(sync_result(loc1, txt_files, loc_files), "repair",
              IF snp1 # snp \/ loc1 # loc THEN "repaired" ELSE "synced")

\* do_sync_repair: the repairs, then do_sync
do_sync_repair(txt_files, loc_files) ==
    /\ UNCHANGED runtime
    /\ ops < MaxOps
    /\ ops' = ops + 1
    /\ repaired(repair_snp, repair_loc, txt_files, loc_files)
    /\ UNCHANGED <<docs, acv, clock, edits, moved>>

\* ------------------------------------------- watch.py: the watcher process
\* os.kill(pid, 0): does a process with this pid exist
is_process_alive(pid) ==
    pid \in Pids /\ procs[pid].pc \in {"running", "stopping", "stamped", "unlinked"}

\* is_watcher_running(): <<running, the pid file it leaves>>; a pid file
\* that names no living process is removed
is_watcher_running ==
    IF pid_file = 0 THEN <<FALSE, 0>>
    ELSE IF is_process_alive(pid_file) THEN <<TRUE, pid_file>>
    ELSE <<FALSE, 0>>

\* stop_watcher(): the signal is sent and the pid file is removed at once,
\* whatever the watcher does with the signal; on Windows (nt) taskkill /F
\* ends the process where it stands.  The pid file and the processes after
stop_watcher(nt) ==
    [pid_file |-> 0,
     procs |-> IF pid_file # 0 /\ is_process_alive(pid_file)
               THEN [procs EXCEPT ![pid_file] =
                       IF nt THEN NoProcess ELSE [@ EXCEPT !.signalled = TRUE]]
               ELSE procs]

\* a step of a process: the pid file and the processes it leaves, and what
\* it did
process_step(pf, ps, op, out) ==
    /\ pid_file' = pf
    /\ procs' = ps
    /\ last' = Did(op, "", out)
    /\ UNCHANGED <<docs, snp, loc, acv, clock, edits, ops, moved, saving>>
    /\ UNCHANGED watched

\* cmd_start up to start_watcher (cli.py 147-201) in a folder that holds no
\* document: the check of the pid file, the choice of the user when a
\* watcher runs, then cmd_init, do_sync and do_bump, which write the index.
\* p is the pid the watcher it is about to start will get
cmd_start(p, choice, nt) ==
    /\ procs[p].pc = "none"
    /\ \A d \in Docs : ~docs[d].ex /\ ~loc[d].ex
    /\ LET running == is_watcher_running[1]
           stopped == stop_watcher(nt)
           starts == ~running \/ choice = "2"
           pf == IF ~running THEN is_watcher_running[2]
                 ELSE IF choice \in {"2", "3"} THEN stopped.pid_file
                 ELSE pid_file
           ps == IF running /\ choice \in {"2", "3"} THEN stopped.procs ELSE procs
       IN  /\ process_step(pf,
                           IF starts THEN [ps EXCEPT ![p].pc = "starting"] ELSE ps,
                           "cmd_start",
                           IF starts THEN "starting"
                           ELSE IF choice = "3" THEN "stopped" ELSE "kept")
           /\ index' = IF starts THEN write_index(<<>>) ELSE index

\* cmd_stop -> stop_watcher
cmd_stop(nt) ==
    /\ pid_file # 0
    /\ process_step(stop_watcher(nt).pid_file, stop_watcher(nt).procs,
                    "cmd_stop", "stopped")
    /\ UNCHANGED index

\* the watcher after start_watcher_foreground has started the observer and
\* the poll (watch.py 366-410)
Watching ==
    [pc |-> "running", observer |-> TRUE, signalled |-> FALSE, events |-> 0,
     poll |-> "sleep", poll_stop |-> FALSE, stopped |-> FALSE]

\* start_watcher_background: the child process runs start_watcher_foreground,
\* which writes its pid over whatever the pid file holds
start_watcher_background(p) ==
    /\ procs[p].pc = "starting"
    /\ process_step(p, [procs EXCEPT ![p] = Watching], "start_watcher", "running")
    /\ UNCHANGED index

\* python watch.py: start_watcher_foreground without cmd_start
start_watcher_foreground(p) ==
    /\ procs[p].pc = "none"
    /\ process_step(p, [procs EXCEPT ![p] = Watching], "start_watcher", "running")
    /\ UNCHANGED index

\* Ctrl+C or kill: SIGINT or SIGTERM reaches the watcher
send_signal(p) ==
    /\ procs[p].pc = "running"
    /\ ~procs[p].signalled
    /\ process_step(pid_file, [procs EXCEPT ![p].signalled = TRUE],
                    "signal", "sent")
    /\ UNCHANGED index

\* signal_handler: observer.stop()
signal_handler(p) ==
    /\ procs[p].pc = "running"
    /\ procs[p].signalled
    /\ process_step(pid_file,
                    [procs EXCEPT ![p].pc = "stopping", ![p].observer = FALSE],
                    "signal_handler", "observer stopped")
    /\ UNCHANGED index

\* the finally block up to the session log (watch.py 419-434): stop_poll
\* sets the flag and does not wait for the thread, the observer is joined,
\* the log gets its stopped stamp
shutdown(p) ==
    /\ procs[p].pc = "stopping"
    /\ process_step(pid_file,
                    [procs EXCEPT ![p].pc = "stamped", ![p].poll_stop = TRUE,
                                  ![p].observer = FALSE, ![p].stopped = TRUE],
                    "shutdown", "stamped")
    /\ UNCHANGED index

\* if pid_path.exists(): pid_path.unlink() (watch.py 437-438)
remove_marker(p) ==
    /\ procs[p].pc = "stamped"
    /\ process_step(0, [procs EXCEPT ![p].pc = "unlinked"],
                    "shutdown", "unlinked")
    /\ UNCHANGED index

\* unregister_watcher and the end of the process; the poll is a daemon
\* thread and ends with it
exit(p) ==
    /\ procs[p].pc = "unlinked"
    /\ process_step(pid_file, [procs EXCEPT ![p] = NoProcess], "shutdown", "exited")
    /\ UNCHANGED index

\* the watcher ends without running any of its code (kill -9, power loss)
watcher_killed(p) ==
    /\ is_process_alive(p)
    /\ process_step(pid_file, [procs EXCEPT ![p] = NoProcess], "killed", "")
    /\ UNCHANGED index

\* the observer of the watcher p dispatches a modification of d to
\* on_modified
dispatch(p, d) ==
    /\ procs[p].observer
    /\ docs[d].ex
    /\ ops < MaxOps
    /\ ops' = ops + 1
    /\ procs' = [procs EXCEPT ![p].events = @ + 1]
    /\ process_save(d, read_file(docs[d]),
                    FieldGet(parse_header(read_file(docs[d])), "version", "av1r1"),
                    read_file(snp[d]), read_loc(loc[d]), get_timestamp,
                    read_loc(loc[d]).meta.saves + 1)
    /\ UNCHANGED <<pid_file, saving>>
    /\ UNCHANGED watched

\* poll_loop of the watcher p, the head of the loop: while not _poll_stop
poll_wake(p) ==
    /\ procs[p].poll = "sleep"
    /\ process_step(pid_file,
                    [procs EXCEPT ![p].poll = IF procs[p].poll_stop THEN "off"
                                              ELSE "tick"],
                    "poll", IF procs[p].poll_stop THEN "off" ELSE "awake")
    /\ UNCHANGED index

\* poll_loop of the watcher p, the body of the loop and the sleep
poll_tick(p, files, mtime, snp_mtime) ==
    /\ procs[p].poll = "tick"
    /\ ops < MaxOps
    /\ ops' = ops + 1
    /\ procs' = [procs EXCEPT ![p].poll = "sleep"]
    /\ poll_loop(get_most_recent_file(files, mtime), mtime, snp_mtime)
    /\ UNCHANGED <<pid_file, saving>>
    /\ UNCHANGED watched

\* atomic.start_poll() in the watcher p: nothing when the poll thread is
\* alive, else the stop flag is cleared and a new thread starts at the head
\* of poll_loop
start_poll(p) ==
    /\ procs[p].pc = "running"
    /\ process_step(pid_file,
                    IF procs[p].poll # "off" THEN procs
                    ELSE [procs EXCEPT ![p].poll_stop = FALSE, ![p].poll = "sleep"],
                    "start_poll",
                    IF procs[p].poll # "off" THEN "already running" ELSE "started")
    /\ UNCHANGED index

\* atomic.stop_poll() in the watcher p: the flag is set, the thread is not
\* waited for
stop_poll(p) ==
    /\ procs[p].pc = "running"
    /\ process_step(pid_file, [procs EXCEPT ![p].poll_stop = TRUE],
                    "stop_poll", "flagged")
    /\ UNCHANGED index

\* ------------------------------- atomic.py, poke.py: the poll and the mtimes
DocFile(d) == <<"doc", d>>
SnpFile(d) == <<"snp", d>>

\* path.stat().st_mtime: the place of the file among the writes, 0 for a
\* file that was never written
mtime_of(f) ==
    LET I == {i \in 1..Len(st_mtime) : st_mtime[i] = f}
    IN  IF I = {} THEN 0 ELSE Min(I)

\* the mtimes after a write of the file f: f is the newest
written_now(f) == Append(SelectSeq(st_mtime, LAMBDA g : g # f), f)

doc_mtimes == [d \in Docs |-> mtime_of(DocFile(d))]

\* a user saves the document d with the content c, which may be the content
\* it has (a touch); the notification reaches the observer or is dropped
user_save(d, c, dropped) ==
    /\ edits < MaxEdits
    /\ edits' = edits + 1
    /\ docs[d].ex
    /\ docs' = [docs EXCEPT ![d] = File(c)]
    /\ st_mtime' = written_now(DocFile(d))
    /\ notified' = IF dropped THEN notified ELSE notified \cup {d}
    /\ last' = Did("user", d, IF dropped THEN "dropped" ELSE "write")
    /\ UNCHANGED <<snp, loc, acv, index, clock, ops, moved,
                   pid_file, procs, saving, poking>>

\* the observer hands a waiting modification event of d to on_modified ->
\* _process_save, which writes the Snapshot when it records the save
observer_dispatch(d) ==
    /\ d \in notified
    /\ notified' = notified \ {d}
    /\ \E current_content \in {read_file(docs[d])} :
       \E header_version \in {FieldGet(parse_header(current_content),
                                       "version", "av1r1")} :
          /\ process_save(d, current_content, header_version,
                          read_file(snp[d]), read_loc(loc[d]), get_timestamp,
                          read_loc(loc[d]).meta.saves + 1)
          /\ st_mtime' = IF save_writes(current_content, header_version,
                                        read_file(snp[d]), read_loc(loc[d]))
                         THEN written_now(SnpFile(d))
                         ELSE st_mtime
    /\ UNCHANGED <<ops, pid_file, procs, saving, poking>>

\* poll_loop on the most recent document: check_file, and the read of
\* trigger_save when it reports a change
poll_pokes(recent_file) ==
    /\ recent_file # ""
    /\ check_file(recent_file, mtime_of(DocFile(recent_file)),
                  mtime_of(SnpFile(recent_file)))

poll_read(recent_file) ==
    /\ poking' = IF poll_pokes(recent_file) THEN trigger_save(recent_file) ELSE <<>>
    /\ last' = Did("poll", recent_file,
                   IF poll_pokes(recent_file) /\ trigger_save(recent_file) # <<>>
                   THEN "read" ELSE "idle")

\* one iteration of poll_loop up to the read of trigger_save (atomic.py
\* 88-93, poke.py 18-23): the most recent document, the check against its
\* Snapshot, and the content read
poll_check(files) ==
    /\ poking = <<>>
    /\ \E recent_file \in {get_most_recent_file(files, doc_mtimes)} :
          poll_read(recent_file)
    /\ UNCHANGED <<docs, snp, loc, acv, index, clock, edits, ops, moved,
                   pid_file, procs, saving, st_mtime, notified>>

\* trigger_save, the write (poke.py 26): the content read goes back into
\* the document, which raises a modification event
poke_write ==
    /\ poking # <<>>
    /\ docs' = [docs EXCEPT ![poking[1]] = File(poking[2])]
    /\ st_mtime' = written_now(DocFile(poking[1]))
    /\ notified' = notified \cup {poking[1]}
    /\ poking' = <<>>
    /\ last' = Did("poke", poking[1], "written")
    /\ UNCHANGED <<snp, loc, acv, index, clock, edits, ops, moved,
                   pid_file, procs, saving>>

\* ------------------------------------------------------------ fix.py: scan
\* storage_name_to_path(storage_name): the relative path of the document a
\* storage name stands for
storage_name_to_path(name) == "./" \o name \o ".txt"

\* (Path.cwd() / rel.lstrip('./')).exists()
path_exists(rel) == DocOfPath(rel) # "" /\ docs[DocOfPath(rel)].ex

Issue(type, d, fixable) == [type |-> type, file |-> d, fixable |-> fixable]

\* the value no version takes: the key is not in the dict
NoKey == "<none>"

\* stored_ref_versions.get(ref): the value of the last pair of that key
rv_get(rv, ref) ==
    LET I == {i \in 1..Len(rv) : rv[i].ref = ref}
    IN  IF I = {} THEN NoKey
        ELSE rv[CHOOSE i \in I : \A j \in I : j <= i].ver

\* one declared reference: "BROKEN" when its path does not exist, "STALE"
\* when both dicts hold it with different versions, else "ok"
ref_state(ref, stored, current) ==
    IF ~path_exists(ref) THEN "BROKEN"
    ELSE IF stored # NoKey /\ current # NoKey /\ stored # current THEN "STALE"
    ELSE "ok"

ref_states(refs, rv, loc_files) ==
    [i \in 1..Len(refs) |->
        ref_state(refs[i], rv_get(rv, refs[i]),
                  ref_lookup(loc, loc_files, refs[i], NoKey))]

\* the STALE issue, then the BROKEN issue, of a document with a header
ref_issues(d, states) ==
    (IF \E i \in 1..Len(states) : states[i] = "STALE"
     THEN <<Issue("STALE", d, FALSE)>> ELSE <<>>)
    \o (IF \E i \in 1..Len(states) : states[i] = "BROKEN"
        THEN <<Issue("BROKEN", d, FALSE)>> ELSE <<>>)

\* a record is large from its threshold-th entry on
is_large_at_threshold(history, threshold) == Len(history) >= threshold

\* len(history) > threshold
is_large(history, threshold) == Len(history) > threshold

\* scan_issues, one record whose document exists
scan_tracked(d, loc_data, content, threshold, loc_files) ==
    (IF is_large(loc_data.history, threshold)
     THEN <<Issue("LARGE", d, TRUE)>> ELSE <<>>)
    \o (IF ~has_header(content) THEN <<>>
        ELSE ref_issues(d, ref_states(
                 parse_refs(FieldGet(parse_header(content), "refs", "")),
                 loc_data.meta.ref_versions, loc_files)))

\* scan_issues, one record file of the loop
scan_one(d, threshold, loc_files) ==
    IF ~loc[d].ex THEN <<>>
    ELSE IF ~path_exists(storage_name_to_path(d))
    THEN <<Issue("ORPHAN", d, TRUE)>>
    ELSE scan_tracked(d, read_loc(loc[d]),
                      read_file(docs[DocOfPath(storage_name_to_path(d))]),
                      threshold, loc_files)

RECURSIVE scan_loop(_, _, _)
scan_loop(files, threshold, loc_files) ==
    IF files = <<>> THEN <<>>
    ELSE scan_one(Head(files), threshold, loc_files)
         \o scan_loop(Tail(files), threshold, loc_files)

\* scan_issues(): loc_files is the order in which glob gives the records
scan_issues(threshold, loc_files) == scan_loop(loc_files, threshold, loc_files)

\* the name of the side-file of storage name d, under .dw/
archive_name(d, timestamp) ==
    "acv/" \o d \o "-" \o ToString(timestamp) \o ".txt"

\* acv_data: the provenance meta, the history, no archive list
archive_data(d, history, ts) ==
    [meta |-> [archived |-> ts,
               entries |-> ToString(Len(history)),
               source |-> "./.dw/loc/" \o d \o ".txt"],
     history |-> history,
     archive |-> <<>>]

\* a side-file holding text: the record read_loc reads from it and the
\* fields parse_dwml_meta reads from its meta block
acv_file(text) ==
    [ex |-> TRUE, data |-> read_loc_text(text),
     raw |-> parse_dwml_block(text, "=d=meta=w=")]

\* the live record after archiving: meta kept, one entry, one more pointer
archived_record(loc_data, ts, name) ==
    Rec(loc_data.meta,
        <<Entry(<<ts, "archived " \o ToString(Len(loc_data.history))
                      \o " entries to " \o name>>, <<>>)>>,
        Append(loc_data.archive, "./.dw/" \o name))

\* do_archive_file(loc_path) on the files st, ok its return value
archive_file(st, d, loc_data, ts, timestamp) ==
    IF ~st.loc[d].ex \/ loc_data.history = <<>>
    THEN [loc |-> st.loc, acv |-> st.acv, ok |-> FALSE]
    ELSE [loc |-> [st.loc EXCEPT ![d] =
                     write_loc(archived_record(loc_data, ts,
                                               archive_name(d, timestamp)))],
          acv |-> [st.acv EXCEPT ![<<d, timestamp>>] =
                     acv_file(write_loc_text(
                                  archive_data(d, loc_data.history, ts)))],
          ok |-> TRUE]

archived(r, d) ==
    /\ loc' = r.loc
    /\ acv' = r.acv
    /\ last' = Did("archive", d, IF r.ok THEN "archived" ELSE "nothing")

\* do_archive_file(loc_path) of the record of storage name d
do_archive_file(d) ==
    /\ UNCHANGED runtime
    /\ ops < MaxOps
    /\ ops' = ops + 1
    /\ Len(read_loc(loc[d]).archive) < MaxHist
    /\ archived(archive_file([loc |-> loc, acv |-> acv], d, read_loc(loc[d]),
                             get_timestamp, get_timestamp_compact), d)
    /\ UNCHANGED <<docs, snp, index, clock, edits, moved>>

\* ------------------------------------------------------------- fix.py: fix
\* do_fix_large: archives the record and reports success whatever the
\* archive run returned
fix_large(st, r) ==
    [loc |-> r.loc, acv |-> r.acv, fixed |-> st.fixed + 1, skipped |-> st.skipped]

\* a fix of an orphan that counts it as fixed and keeps the record file
fix_orphan_keeps_record(st, d) ==
    [st EXCEPT !.fixed = @ + 1]

\* do_fix_orphan: unlinks the record file when it exists
fix_orphan(st, d) ==
    IF st.loc[d].ex
    THEN [st EXCEPT !.loc = [st.loc EXCEPT ![d] = NoRec], !.fixed = @ + 1]
    ELSE [st EXCEPT !.skipped = @ + 1]

\* an auto_fix that removes the record of every issue that is not LARGE
fix_one_removes_all(st, issue, ts, timestamp) ==
    IF issue.type = "LARGE"
    THEN fix_large(st, archive_file(st, issue.file, read_loc(st.loc[issue.file]),
                                    ts, timestamp))
    ELSE fix_orphan(st, issue.file)

\* auto_fix, one issue of the loop: st = [loc, acv, fixed, skipped]
fix_one(st, issue, ts, timestamp) ==
    IF ~issue.fixable THEN [st EXCEPT !.skipped = @ + 1]
    ELSE IF issue.type = "LARGE"
    THEN fix_large(st, archive_file(st, issue.file, read_loc(st.loc[issue.file]),
                                    ts, timestamp))
    ELSE IF issue.type = "ORPHAN" THEN fix_orphan(st, issue.file)
    ELSE [st EXCEPT !.skipped = @ + 1]

RECURSIVE auto_fix(_, _, _, _)
\* auto_fix(issues): the files and the counts (fixed, skipped) it leaves
auto_fix(st, issues, ts, timestamp) ==
    IF issues = <<>> THEN st
    ELSE auto_fix(fix_one(st, Head(issues), ts, timestamp), Tail(issues),
                  ts, timestamp)

scanned(issues, config, threshold) ==
    last' = Report("scan", "", IF issues = <<>> THEN "no issues" ELSE "issues",
                   config, threshold, issues, 0, 0)

\* cmd_fix(['-n']): scan_issues and the report, nothing else; config is the
\* content of .dw/config.txt at the time of the run
cmd_fix_report(config, loc_files) ==
    /\ UNCHANGED runtime
    /\ scanned(scan_issues(read_config(config), loc_files), config,
               read_config(config))
    /\ UNCHANGED <<docs, snp, loc, acv, index, clock, edits, ops, moved>>

fix_applied(st, issues, config, threshold) ==
    /\ loc' = st.loc
    /\ acv' = st.acv
    /\ last' = Report("fix", "", "fixed", config, threshold, issues,
                      st.fixed, st.skipped)

fix_scanned(issues, config, threshold) ==
    IF \E i \in 1..Len(issues) : issues[i].fixable
    THEN fix_applied(auto_fix([loc |-> loc, acv |-> acv, fixed |-> 0, skipped |-> 0],
                              issues, get_timestamp, get_timestamp_compact),
                     issues, config, threshold)
    ELSE /\ UNCHANGED <<loc, acv>>
         /\ last' = Report("fix", "", IF issues = <<>> THEN "no issues" ELSE "manual",
                           config, threshold, issues, 0, 0)

\* cmd_fix(['-y']): scan_issues, then auto_fix(issues) when at least one
\* issue is auto-fixable
cmd_fix_auto(config, loc_files) ==
    /\ UNCHANGED runtime
    /\ ops < MaxOps
    /\ ops' = ops + 1
    /\ \A d \in Docs : Len(read_loc(loc[d]).archive) < MaxHist
    /\ fix_scanned(scan_issues(read_config(config), loc_files), config,
                   read_config(config))
    /\ UNCHANGED <<docs, snp, index, clock, edits, moved>>

\* cmd_fix(['-r']) -> do_remove_orphans: unlinks every record whose
\* document does not exist, and keeps the snapshots
do_remove_orphans ==
    /\ UNCHANGED runtime
    /\ ops < MaxOps
    /\ ops' = ops + 1
    /\ loc' = [d \in Docs |->
                IF loc[d].ex /\ ~path_exists(storage_name_to_path(d))
                THEN NoRec ELSE loc[d]]
    /\ last' = Did("remove_orphans", "", IF loc' # loc THEN "removed" ELSE "none")
    /\ UNCHANGED <<docs, snp, acv, index, clock, edits, moved>>

Next ==
    \/ Tick
    \/ \E d \in Docs : \E c \in UserContents(d) : UserWrite(d, c)
    \/ \E d \in Docs : UserDelete(d)
    \/ \E s \in Docs, d \in Docs : UserMove(s, d)
    \/ \E d \in Docs : OnModified(d)
    \/ \E d \in Docs : OnCreated(d)
    \/ \E replace \in BOOLEAN : OnMoved(replace)
    \/ \E loc_files \in {<<d>> : d \in Docs} \cup Orders : do_bump(loc_files)
    \/ \E files \in Orders : do_sync(files, files)
    \/ \E files \in Orders : do_sync_repair(files, files)
    \/ \E d \in Docs : do_archive_file(d)
    \/ \E d \in Docs : \E v \in {"av1r1", "av1r2"} : UserSetVersion(d, v)
    \/ \E config \in ConfigFiles : \E files \in Orders : cmd_fix_report(config, files)
    \/ \E config \in ConfigFiles : \E files \in Orders : cmd_fix_auto(config, files)
    \/ do_remove_orphans
    \/ \E d \in Docs : \E written \in 0..Len(write_loc_text(save_data(d))) :
          OnModifiedKilled(d, written)
    \/ \E d \in Docs : \E i \in 1..Len(SaveCalls) : OnModifiedFails(d, SaveCalls[i])
    \/ \E d \in Docs : save_read(d)
    \/ save_write
    \/ \E files \in Orders : \E mtime \in [Docs -> Mtimes] : \E snp_mtime \in Mtimes :
          pollTick(files, mtime, snp_mtime)
    \/ \E p \in Pids : \E choice \in {"1", "2", "3"} : \E nt \in BOOLEAN :
          cmd_start(p, choice, nt)
    \/ \E nt \in BOOLEAN : cmd_stop(nt)
    \/ \E p \in Pids : start_watcher_background(p)
    \/ \E p \in Pids : start_watcher_foreground(p)
    \/ \E p \in Pids : send_signal(p)
    \/ \E p \in Pids : signal_handler(p)
    \/ \E p \in Pids : shutdown(p)
    \/ \E p \in Pids : remove_marker(p)
    \/ \E p \in Pids : exit(p)
    \/ \E p \in Pids : watcher_killed(p)
    \/ \E p \in Pids : \E d \in Docs : dispatch(p, d)
    \/ \E p \in Pids : poll_wake(p)
    \/ \E p \in Pids : \E files \in Orders : \E mtime \in [Docs -> Mtimes] :
          \E snp_mtime \in Mtimes : poll_tick(p, files, mtime, snp_mtime)
    \/ \E d \in Docs : \E body \in {<<X>>, <<X, Y>>, <<Y>>} : UserEditBody(d, body)
    \/ \E p \in Pids : start_poll(p)
    \/ \E p \in Pids : stop_poll(p)
    \/ \E d \in Docs : \E c \in UserContents(d) : \E dropped \in BOOLEAN :
          user_save(d, c, dropped)
    \/ \E d \in Docs : observer_dispatch(d)
    \/ \E files \in Orders : poll_check(files)
    \/ poke_write

Spec == Init /\ [][Next]_vars

\* the save pipeline of one document, with the operations that feed it
NextSave ==
    \/ \E c \in UserContents("a") : UserWrite("a", c)
    \/ OnCreated("a")
    \/ OnModified("a")
    \/ do_bump(<<"a">>)
    \/ \E files \in Orders : do_sync_repair(files, files)

SpecSave == Init /\ [][NextSave]_vars

\* sync over two documents
NextSync ==
    \/ \E d \in Docs : \E c \in UserContents(d) : UserWrite(d, c)
    \/ \E d \in Docs : UserDelete(d)
    \/ \E d \in Docs : OnCreated(d)
    \/ OnModified("a")
    \/ do_archive_file("a")
    \/ \E files \in Orders : do_sync(files, files)

SpecSync == Init /\ [][NextSync]_vars
\* every operation of the engine that rewrites a record, on one document
\* and on the name it is moved to
\* the contents written where every operation runs: the header the tool
\* writes, a header written by hand, a line holding a markup token, and a
\* header of another base
OpsContents ==
    { WithHeader(create_header("a", Ts(0)), <<X>>),
      WithHeader(FlatHeader("av1r1", ""), <<X>>),
      WithHeader(FlatHeader("av1r1", ""), <<X, W>>),
      WithHeader(FlatHeader("bv1r1", ""), <<X>>) }

NextOps ==
    \/ \E c \in OpsContents : UserWrite("a", c)
    \/ UserMove("a", "b")
    \/ OnCreated("a")
    \/ \E d \in Docs : OnModified(d)
    \/ \E replace \in BOOLEAN : OnMoved(replace)
    \/ \E loc_files \in {<<"a">>, <<"a", "b">>} : do_bump(loc_files)
    \/ do_sync(<<"a", "b">>, <<"a", "b">>)
    \/ do_sync_repair(<<"a", "b">>, <<"a", "b">>)
    \/ \E d \in Docs : do_archive_file(d)

SpecOps == Init /\ [][NextOps]_vars

\* references: a refers to b, in a flat header and in the header
\* create_header writes
RefsContents(d) ==
    IF d = "a"
    THEN { WithHeader(FlatHeader("", "./b.txt"), <<X>>),
           WithHeader(update_field(create_header("a", Ts(0)), "refs", <<"./b.txt">>),
                      <<X>>) }
    ELSE { WithHeader(FlatHeader("av1r2", ""), <<X>>) }

NextRefs ==
    \/ \E d \in Docs : \E c \in RefsContents(d) : UserWrite(d, c)
    \/ \E v \in {"av1r1", "av1r2"} : UserSetVersion("b", v)
    \/ \E d \in Docs : OnModified(d)
    \/ \E files \in Orders : do_sync(files, files)
    \/ do_sync_repair(<<"a", "b">>, <<"a", "b">>)
    \/ \E config \in {NoConfig, ConfigText("1")} :
          cmd_fix_report(config, <<"a", "b">>)

SpecRefs == Init /\ [][NextRefs]_vars

\* scan and fix
NextFix ==
    \/ UserWrite("a", WithHeader(FlatHeader("", "./b.txt"), <<X>>))
    \/ UserWrite("b", WithHeader(FlatHeader("av1r2", ""), <<X>>))
    \/ \E v \in {"av1r1", "av1r2"} : UserSetVersion("b", v)
    \/ UserDelete("a")
    \/ \E d \in Docs : OnModified(d)
    \/ do_sync_repair(<<"a", "b">>, <<"a", "b">>)
    \/ \E config \in {NoConfig, ConfigText("1")} :
          cmd_fix_report(config, <<"a", "b">>)
    \/ \E config \in ConfigFiles : cmd_fix_auto(config, <<"a", "b">>)
    \/ do_remove_orphans

SpecFix == Init /\ [][NextFix]_vars

\* a save that is killed or refused by the file system, on one document
FaultContents ==
    { WithHeader(FlatHeader("av1r1", ""), <<X>>),
      WithHeader(FlatHeader("av1r1", ""), <<X, Y>>),
      WithHeader(FlatHeader("av1r1", ""), <<Y>>) }

NextFault ==
    \/ \E c \in FaultContents : UserWrite("a", c)
    \/ do_sync_repair(<<"a">>, <<"a">>)
    \/ OnModified("a")
    \/ \E written \in 0..Len(write_loc_text(save_data("a"))) :
          OnModifiedKilled("a", written)
    \/ \E i \in 1..Len(SaveCalls) : OnModifiedFails("a", SaveCalls[i])

SpecFault == Init /\ [][NextFault]_vars

\* the fallback poll beside the save pipeline
PollContents(d) ==
    IF d = "a"
    THEN { <<X>>,
           WithHeader(FlatHeader("av1r1", ""), <<X>>),
           WithHeader(FlatHeader("av1r1", ""), <<Y>>),
           WithHeader(FlatHeader("av1r1", ""), <<X, Y>>) }
    ELSE { WithHeader(FlatHeader("av1r2", ""), <<X>>) }

NextPoll ==
    \/ \E d \in Docs : \E c \in PollContents(d) : UserWrite(d, c)
    \/ do_sync_repair(<<"a", "b">>, <<"a", "b">>)
    \/ \E d \in Docs : OnModified(d)
    \/ \E files \in Orders : \E mtime \in [Docs -> Mtimes] : \E snp_mtime \in Mtimes :
          pollTick(files, mtime, snp_mtime)

SpecPoll == Init /\ [][NextPoll]_vars

\* a save of the watcher beside the commands of the command line
NextRace ==
    \/ \E c \in FaultContents : UserWrite("a", c)
    \/ do_sync_repair(<<"a">>, <<"a">>)
    \/ save_read("a")
    \/ save_write
    \/ do_bump(<<"a">>)
    \/ do_sync(<<"a">>, <<"a">>)
    \/ do_archive_file("a")

SpecRace == Init /\ [][NextRace]_vars

\* starts and stops of the watcher in a folder without documents
NextStart ==
    \/ \E p \in Pids : \E choice \in {"1", "2", "3"} : \E nt \in BOOLEAN :
          cmd_start(p, choice, nt)
    \/ \E p \in Pids : start_watcher_background(p)
    \/ \E nt \in BOOLEAN : cmd_stop(nt)
    \/ \E p \in Pids : signal_handler(p)
    \/ \E p \in Pids : shutdown(p)
    \/ \E p \in Pids : remove_marker(p)
    \/ \E p \in Pids : exit(p)
    \/ \E p \in Pids : watcher_killed(p)

SpecStart == Init /\ [][NextStart]_vars

\* one watcher from its start to its end, over one document
NextStop ==
    \/ \E c \in FaultContents : UserWrite("a", c)
    \/ start_watcher_foreground(1)
    \/ dispatch(1, "a")
    \/ poll_wake(1)
    \/ \E mtime \in [Docs -> Mtimes] : \E snp_mtime \in Mtimes :
          poll_tick(1, <<"a", "b">>, mtime, snp_mtime)
    \/ send_signal(1)
    \/ \E nt \in BOOLEAN : cmd_stop(nt)
    \/ signal_handler(1)
    \/ shutdown(1)
    \/ remove_marker(1)
    \/ exit(1)

SpecStop == Init /\ [][NextStop]_vars

\* the poll controller of one watcher, over one document
NextPollCtl ==
    \/ \E c \in FaultContents : UserWrite("a", c)
    \/ start_watcher_foreground(1)
    \/ start_poll(1)
    \/ stop_poll(1)
    \/ poll_wake(1)
    \/ \E mtime \in [Docs -> Mtimes] : \E snp_mtime \in Mtimes :
          poll_tick(1, <<"a", "b">>, mtime, snp_mtime)

SpecPollCtl == Init /\ [][NextPollCtl]_vars

\* the watcher at work on two tracked documents: user saves whose
\* notification may be dropped, the observer, and the poll with the mtimes
\* the files have
LiveContents ==
    { WithHeader(FlatHeader("av1r1", ""), <<X>>),
      WithHeader(FlatHeader("av1r1", ""), <<Y>>),
      WithHeader(FlatHeader("av1r1", ""), <<X, Y>>) }

\* the record files after do_sync_repair has registered both documents
\* with the content c
tracked_loc(c) ==
    [d \in Docs |-> write_loc(initial_record(d, c, Ts(0)))]

\* both documents tracked: Snapshots, records and index as do_sync_repair
\* leaves them, the Snapshots written after the documents
InitLive ==
    /\ docs = [d \in Docs |-> File(WithHeader(FlatHeader("av1r1", ""), <<X>>))]
    /\ snp = [d \in Docs |-> File(WithHeader(FlatHeader("av1r1", ""), <<X>>))]
    /\ loc = tracked_loc(WithHeader(FlatHeader("av1r1", ""), <<X>>))
    /\ index = write_index(<<[file |-> get_relative_path("a"), version |-> "av1r1"],
                             [file |-> get_relative_path("b"), version |-> "av1r1"]>>)
    /\ acv = [n \in AcvNames |-> NoAcv]
    /\ clock = 0
    /\ edits = 0
    /\ ops = 0
    /\ moved = <<>>
    /\ pid_file = 0
    /\ procs = [p \in Pids |-> NoProcess]
    /\ saving = <<>>
    /\ st_mtime = <<DocFile("a"), DocFile("b"), SnpFile("a"), SnpFile("b")>>
    /\ poking = <<>>
    /\ notified = {}
    /\ last = Did("none", "", "")

NextLive ==
    \/ \E d \in Docs : \E c \in LiveContents : \E dropped \in BOOLEAN :
          user_save(d, c, dropped)
    \/ \E d \in Docs : observer_dispatch(d)
    \/ \E files \in Orders : poll_check(files)
    \/ poke_write

SpecLive == InitLive /\ [][NextLive]_vars

\* an event of the observer: a step of on_modified that takes it from the
\* waiting ones
Dispatched(d) == last'.op = "save" /\ d \in notified /\ d \notin notified'

\* the poll thread runs an iteration every half second and finishes the
\* write it began, and the observer thread dispatches the events that wait:
\* weak fairness of the dispatch of each document's event, which is
\* enabled exactly when the event waits
SpecLiveFair ==
    /\ SpecLive
    /\ WF_vars(\E files \in Orders : poll_check(files))
    /\ WF_vars(poke_write)
    /\ \A d \in Docs : []<>(d \notin notified) \/ []<><<Dispatched(d)>>_vars

\* saves, bumps and syncs of one document whose header nobody edits by
\* hand: it carries the header the tool writes, or the same fields written
\* flat, and only the text below the header is edited
VersionContents ==
    { WithHeader(create_header("a", Ts(0)), <<X>>),
      WithHeader(FlatHeader("av1r1", ""), <<X>>) }

\* the record files after do_sync_repair has registered the document a
\* with content c
registered_loc(c) ==
    [d \in Docs |-> IF d = "a" THEN write_loc(initial_record("a", c, Ts(0)))
                    ELSE NoRec]

\* the document a is tracked: Snapshot, record and index as
\* do_sync_repair leaves them
InitVersion ==
    \E c \in VersionContents :
        /\ docs = [d \in Docs |-> IF d = "a" THEN File(c) ELSE NoFile]
        /\ snp = [d \in Docs |-> IF d = "a" THEN File(c) ELSE NoFile]
        /\ loc = sync_result(registered_loc(c), <<"a">>, <<"a">>).loc
        /\ index = write_index(sync_result(registered_loc(c), <<"a">>, <<"a">>).tracked)
        /\ acv = [n \in AcvNames |-> NoAcv]
        /\ clock = 0
        /\ edits = 0
        /\ ops = 0
        /\ moved = <<>>
        /\ pid_file = 0
        /\ procs = [p \in Pids |-> NoProcess]
        /\ saving = <<>>
        /\ st_mtime = <<>>
        /\ poking = <<>>
        /\ notified = {}
        /\ last = Did("none", "", "")

NextVersion ==
    \/ \E body \in {<<X>>, <<X, Y>>, <<Y>>} : UserEditBody("a", body)
    \/ Tick
    \/ OnModified("a")
    \/ do_bump(<<"a">>)
    \/ do_sync(<<"a">>, <<"a">>)

SpecVersion == InitVersion /\ [][NextVersion]_vars

\* ------------------------------------------- the pure functions, applied
\* a call of a pure function: its name, its argument and what it returned
Applied(fn, arg, res) == [op |-> fn, arg |-> arg, res |-> res]

\* one call, made in the state after construction
Apply(fn, arg, res) ==
    /\ UNCHANGED runtime
    /\ last = Did("none", "", "")
    /\ last' = Applied(fn, arg, res)
    /\ UNCHANGED <<docs, snp, loc, acv, index, clock, edits, ops, moved>>

\* bump.py on the text of every valid revision id up to MaxNumber
MaxNumber == 11
RevisionIds == [base : {"a", "b", "z"}, major : 1..MaxNumber,
                revision : 1..MaxNumber]

apply_increment_r(r) == Apply("increment_r", r, increment_r(format_version(r)))
apply_increment_v(r) == Apply("increment_v", r, increment_v(format_version(r)))

NextRevision ==
    \/ \E r \in RevisionIds : apply_increment_r(r)
    \/ \E r \in RevisionIds : apply_increment_v(r)

SpecRevision == Init /\ [][NextRevision]_vars

\* diff.py on every pair of texts of at most MaxLines lines
MaxLines == 3
RECURSIVE LinesUpTo(_)
LinesUpTo(n) ==
    IF n = 0 THEN {<<>>}
    ELSE LinesUpTo(n - 1)
         \cup {<<l>> \o t : l \in {X, Y, <<>>},
                            t \in {u \in LinesUpTo(n - 1) : Len(u) = n - 1}}

\* the texts: the lines joined by line breaks, with and without a final one
Texts ==
    {Flatten(ls) : ls \in LinesUpTo(MaxLines)}
    \cup {Flatten(ls) \o <<"\n">> : ls \in LinesUpTo(MaxLines - 1)}

\* what calc_diff and has_changes return for the same pair
diff_result(old_lines, new_lines) ==
    <<calc_diff(old_lines, new_lines), has_changes(old_lines, new_lines)>>

apply_calc_diff(old_content, new_content) ==
    Apply("calc_diff", <<old_content, new_content>>,
          diff_result(ToLines(old_content), ToLines(new_content)))

NextDiff == \E old_content \in Texts, new_content \in Texts :
                apply_calc_diff(old_content, new_content)

SpecDiff == Init /\ [][NextDiff]_vars

\* dwml.py on documents its builder operations make: one or two blocks;
\* the first with no field, one field or two fields, the value a scalar or
\* a list of 0..MaxValues values; with a comment or with a container, the
\* container with its own field, comment, added and removed lines
MaxValues == 2
ListOf(n) == [i \in 1..n |-> IF i % 2 = 1 THEN X ELSE Y]
\* the field values, by number: two scalars, then the lists by length
FieldValue(n) ==
    IF n = 1 THEN Scalar(X) ELSE IF n = 2 THEN Scalar(<<>>)
    ELSE List(ListOf(n - 3))
FieldNumbers == 1..(MaxValues + 3)
\* the fields given to add_block: none (n = 0), one, or two (second)
FieldDict(n, second) ==
    IF n = 0 THEN <<>>
    ELSE IF second THEN <<[k |-> "file", v |-> Scalar(Y)],
                          [k |-> "version", v |-> FieldValue(n)]>>
    ELSE <<[k |-> "file", v |-> FieldValue(n)]>>

BuiltContainer(n, cs, as, rs) ==
    Container(IF n = 0 THEN <<>> ELSE <<[k |-> "action", v |-> FieldValue(n)]>>,
              cs, as, rs, <<>>)

with_comment(doc, cs) == IF cs = <<>> THEN doc ELSE add_comment(doc, cs[1])
with_block(doc, names) ==
    IF names = <<>> THEN doc ELSE add_block(doc, names[1], <<>>)

\* add_block, then a comment, then a second block
Built(n, second, comment, names) ==
    with_block(with_comment(add_block(<<>>, "=d=meta=w=", FieldDict(n, second)),
                            comment), names)

apply_parse_render(doc) == Apply("parse", structure(doc), parse(render(doc)))

build_plain(n, second, comment, names) ==
    apply_parse_render(Built(n, second, comment, names))

\* the same with a container added to the first block
build_container(n, c, cs, as, rs, names) ==
    apply_parse_render(
        with_block(add_container(add_block(<<>>, "=d=meta=w=", FieldDict(n, FALSE)),
                                 BuiltContainer(c, cs, as, rs)), names))

NextCodec ==
    \/ \E n \in {0} \cup FieldNumbers, second \in BOOLEAN,
          comment \in {<<>>, <<X>>}, names \in {<<>>, <<"=d=history=w=">>} :
          build_plain(n, second, comment, names)
    \/ \E n \in {0} \cup FieldNumbers, c \in {0} \cup FieldNumbers,
          cs \in {<<>>, <<Y>>}, as \in {<<>>, <<X, Y>>}, rs \in {<<>>, <<Y>>},
          names \in {<<>>, <<"=d=history=w=">>} :
          build_container(n, c, cs, as, rs, names)

SpecCodec == Init /\ [][NextCodec]_vars

\* the header the tool writes, its version and refs fields set by update_field
MaxHeaderRev == 5
HeaderVersions == {"av1r1"} \cup {format_version([base |-> b, major |-> 1, revision |-> r]) :
                                    b \in {"a", "b", "z"}, r \in 1..MaxHeaderRev}
HeaderRefs == {"", "./b.txt"}

written_header(d, ts, version, refs) ==
    update_field(
        update_field(WithHeader(create_header(d, ts), <<X>>), "version", <<version>>),
        "refs", IF refs = "" THEN <<>> ELSE <<refs>>)

apply_parse_header(d, ts, version, refs) ==
    Apply("parse_header", <<d, version, refs, ts>>,
          parse_header(written_header(d, ts, version, refs)))

NextHeader ==
    \E d \in Docs : \E n \in 0..MaxClock : \E version \in HeaderVersions :
        \E refs \in HeaderRefs : apply_parse_header(d, Ts(n), version, refs)

SpecHeader == Init /\ [][NextHeader]_vars

\* the changes list of _process_save on diffs around its caps: 0, 1,
\* max_lines - 1, max_lines and more than max_lines added and removed
\* lines; plain lines, lines holding a markup token, and lines longer than
\* max_line_len
MaxDiffLines == 51
DiffSizes == {0, 1, max_lines - 1, max_lines, MaxDiffLines}
LongLine == [i \in 1..(max_line_len \div TokenChars + 1) |-> "x"]
DiffLines == {X, W, LongLine}

\* the entry appended for the diff, as built and as the record holds it
apply_save_changes(diff, n, m, a, r) ==
    Apply("save_changes", <<n, m, a, r>>,
          <<save_changes(diff),
            Stored(save_record("a", EmptyRec, "av1r1", Ts(0), 1,
                               save_changes(diff))).history>>)

NextChanges ==
    \E n \in DiffSizes, m \in DiffSizes : \E a \in DiffLines, r \in DiffLines :
        apply_save_changes([added |-> [i \in 1..n |-> a],
                            removed |-> [i \in 1..m |-> r]], n, m, a, r)

SpecChanges == Init /\ [][NextChanges]_vars

\* ------------------------------------------------------------ the claims
\* the revision the save pipeline and sync read in a header (headerRev)
headerRev(c) == FieldGet(parse_header(c), "version", "av1r1")

\* the save pipeline ran last, for document d
Saved(d) == last'.op = "save" /\ last'.doc = d

LastEntry(rec) == rec.history[Len(rec.history)]

C1_Pre(d) ==
    /\ has_header(read_file(docs[d]))
    /\ ~check_rebase(read_loc(loc[d]).meta.version, headerRev(read_file(docs[d])))
    /\ has_diff(calc_diff(read_file(snp[d]), read_file(docs[d])))

C1_Post(d, old, new) ==
    /\ loc'[d].ex
    /\ new.meta.saves = old.meta.saves + 1
    /\ Len(new.history) = Len(old.history) + 1
    /\ LastEntry(new).action = <<Ts(clock), "save:" \o ToString(new.meta.saves)>>
    /\ LastEntry(new).changes
         = save_changes(calc_diff(read_file(snp[d]), read_file(docs[d])))
    /\ snp'[d] = File(read_file(docs[d]))

\* C1: when the save pipeline runs for a document that carries the header,
\* detects no rebase and finds a non-empty diff between the Snapshot and the
\* content, the record afterwards has pendingSaves one higher, one more
\* history entry, labelled save:{pendingSaves} and holding the diff (added
\* lines, then removed lines), and the Snapshot is the content.
C1_SaveRecordsDiff ==
    [][\A d \in Docs :
          (Saved(d) /\ C1_Pre(d)) => C1_Post(d, read_loc(loc[d]), loc'[d].data)]_vars

C2_Pre(d) ==
    \/ ~has_header(read_file(docs[d]))
    \/ /\ ~check_rebase(read_loc(loc[d]).meta.version,
                        headerRev(read_file(docs[d])))
       /\ ~has_diff(calc_diff(read_file(snp[d]), read_file(docs[d])))

\* C2: the save pipeline leaves the record and the Snapshot of a document
\* as they are when the document carries no header, or when (without a
\* rebase) the diff between the Snapshot and the content is empty.
C2_SaveNothingToRecord ==
    [][\A d \in Docs :
          (Saved(d) /\ C2_Pre(d)) => (loc'[d] = loc[d] /\ snp'[d] = snp[d])]_vars

\* the save pipeline has just found nothing to record for a document that
\* has a record, with history, and a Snapshot
C2_Witness ==
    /\ last = Did("save", "a", "no changes")
    /\ loc["a"].ex
    /\ snp["a"].ex
    /\ loc["a"].data.history # <<>>

C3_Pre(d) ==
    /\ has_header(read_file(docs[d]))
    /\ check_rebase(read_loc(loc[d]).meta.version, headerRev(read_file(docs[d])))

C3_Post(d, old, new, rev) ==
    /\ \E n \in AcvNames :
          ~acv[n].ex /\ acv'[n].ex /\ acv'[n].data.history = old.history
    /\ loc'[d].ex
    /\ new.meta.version = rev
    /\ new.meta.saves = 0
    /\ Len(new.history) = 1
    /\ new.history[1].action
         = <<Ts(clock), "rebased " \o old.meta.version \o " -> " \o rev>>
    /\ snp'[d] = snp[d]

\* C3: when the save pipeline sees that the base letters of the record's
\* revision and of the header's revision differ, it archives the record to
\* a side-file, replaces it by a fresh record (the header's revision,
\* pendingSaves 0, the single entry "rebased old -> new") and stops: no
\* save entry, and the Snapshot is not written.
C3_RebaseArchives ==
    [][\A d \in Docs :
          (Saved(d) /\ C3_Pre(d))
          => C3_Post(d, read_loc(loc[d]), loc'[d].data,
                     headerRev(read_file(docs[d])))]_vars
\* earlier entries keep their label, their changes and their order
HistPrefix(old, new) ==
    /\ Len(old) <= Len(new)
    /\ \A i \in 1..Len(old) :
          new[i].action = old[i].action /\ new[i].changes = old[i].changes

\* C4: history is append-only for save, rename, bump, sync and repair: the
\* history a record had before the operation is a prefix of the history it
\* has afterwards (a rename carries the record from the old name to the new).
C4_HistoryAppendOnly ==
    [][/\ last'.op \in {"save", "bump", "sync", "repair"}
          => \A d \in Docs : HistPrefix(read_loc(loc[d]).history,
                                        read_loc(loc'[d]).history)
       /\ (last'.op = "rename" /\ last'.out = "renamed")
          => HistPrefix(read_loc(loc[moved[1]]).history,
                        read_loc(loc'[moved[2]]).history)]_vars

\* the records a bump was asked to look at: one, or all of them
Bumped(d) == last'.op = "bump" /\ last'.doc \in {d, ""}

\* C5: a bump of a record with pendingSaves > 0 sets pendingSaves to 0, and
\* neither save, rename, sync, archive nor repair ever lowers the
\* pendingSaves of a record.
C5_OnlyBumpResetsSaves ==
    [][/\ \A d \in Docs :
             (Bumped(d) /\ loc[d].ex /\ loc[d].data.meta.saves > 0)
             => (loc'[d].ex /\ loc'[d].data.meta.saves = 0)
       /\ last'.op \in {"save", "sync", "archive", "repair"}
          => \A d \in Docs : read_loc(loc'[d]).meta.saves
                               >= read_loc(loc[d]).meta.saves
       /\ (last'.op = "rename" /\ last'.out = "renamed")
          => read_loc(loc'[moved[2]]).meta.saves
               >= read_loc(loc[moved[1]]).meta.saves]_vars

\* a bump has just reset the saves of a record that had been saved to
C5_Witness ==
    /\ last = Did("bump", "a", "bumped")
    /\ loc["a"].ex
    /\ loc["a"].data.meta.saves = 0
    /\ \E i \in 1..Len(loc["a"].data.history) :
          loc["a"].data.history[i].action[2] = "save:1"
    /\ LastEntry(loc["a"].data).action[2] = "bumped av1r2"

\* the value written in the first line `=x= field;|value|; =z=` of a
\* content, "" when it has no such line
written_field(c, field) ==
    IF FieldMatch(Flatten(c), field, 1).p = 0 THEN ""
    ELSE Str(Slice(Flatten(c), FieldMatch(Flatten(c), field, 1).v + 1,
                   IndexIn(Flatten(c), PipeTokens,
                           FieldMatch(Flatten(c), field, 1).v + 1) - 1))

C6_Post(d, old, new, txt) ==
    IF loc[d].ex /\ old.meta.saves > 0
    THEN /\ new.meta.version = increment_r(old.meta.version)
         /\ parse_version(new.meta.version).base
              = parse_version(old.meta.version).base
         /\ parse_version(new.meta.version).major
              = parse_version(old.meta.version).major
         /\ parse_version(new.meta.version).revision
              = parse_version(old.meta.version).revision + 1
         /\ Len(new.history) = Len(old.history) + 1
         /\ LastEntry(new).action
              = <<Ts(clock), "bumped " \o new.meta.version>>
         /\ (txt # "" /\ docs[txt].ex /\ has_header(docs[txt].c))
            => written_field(docs'[txt].c, "version") = new.meta.version
    ELSE /\ loc'[d] = loc[d]
         /\ txt # "" => docs'[txt] = docs[txt]

\* C6: a bump of a record with pendingSaves > 0 sets the record's revision
\* to the next revision (base and major unchanged), appends exactly one
\* "bumped {newRevision}" entry and writes newRevision into the version
\* field of the header of the record's document, so that the record and the
\* header hold the same revision; a record with pendingSaves = 0 and its
\* document are left as they are.
C6_BumpSetsRevision ==
    [][\A d \in Docs :
          Bumped(d)
          => C6_Post(d, read_loc(loc[d]), read_loc(loc'[d]),
                     DocOfPath(read_loc(loc[d]).meta.file))]_vars

\* sync ran last
Synced == last'.op = "sync"

\* a document sync looks at: it carries the header and has a record
Trackable(d) == docs[d].ex /\ has_header(docs[d].c) /\ loc[d].ex

\* C7: after sync the record of every document that carries the header has
\* as meta.version the revision written in the header and as meta.file the
\* document's relative path, whatever the record held before.
C7_SyncTakesHeaderRevision ==
    [][Synced
       => \A d \in Docs :
             (Trackable(d) /\ written_field(docs[d].c, "version") # "")
             => /\ loc'[d].data.meta.version
                     = written_field(docs[d].c, "version")
                /\ loc'[d].data.meta.file = get_relative_path(d)]_vars

Range(seq) == {seq[i] : i \in 1..Len(seq)}

\* C8: after sync the keys of a record's refVersions are exactly the
\* references the header of its document declares; a header that declares
\* none leaves none.
C8_SyncReplacesRefVersions ==
    [][Synced
       => \A d \in Docs :
             Trackable(d)
             => {r.ref : r \in Range(loc'[d].data.meta.ref_versions)}
                  = Range(parse_refs(FieldGet(parse_header(docs[d].c),
                                              "refs", "")))]_vars

\* C9: after sync the index holds exactly one entry for every document that
\* carries the header, with the revision of that header, and no other.
C9_SyncRebuildsIndex ==
    [][Synced
       => /\ index'.ex
          /\ \A d \in Docs :
                (docs[d].ex /\ has_header(docs[d].c))
                => \E i \in 1..Len(index'.tracked) :
                      /\ index'.tracked[i].file = get_relative_path(d)
                      /\ index'.tracked[i].version = headerRev(docs[d].c)
                      /\ \A j \in 1..Len(index'.tracked) :
                            index'.tracked[j].file = get_relative_path(d)
                            => j = i
          /\ \A i \in 1..Len(index'.tracked) :
                \E d \in Docs :
                   /\ docs[d].ex /\ has_header(docs[d].c)
                   /\ index'.tracked[i].file = get_relative_path(d)]_vars

\* C10: sync changes neither the history nor the pendingSaves of a record,
\* deletes no record, creates no archive side-file and writes no Snapshot
\* and no document.
C10_SyncFrame ==
    [][Synced
       => /\ \A d \in Docs :
                /\ loc[d].ex => loc'[d].ex
                /\ read_loc(loc'[d]).meta.saves = read_loc(loc[d]).meta.saves
                /\ Len(read_loc(loc'[d]).history) = Len(read_loc(loc[d]).history)
                /\ HistPrefix(read_loc(loc[d]).history, read_loc(loc'[d]).history)
          /\ acv' = acv
          /\ snp' = snp
          /\ docs' = docs]_vars

\* C20: a create event for a new trackable document (header present, no
\* record, no snapshot) leaves a snapshot holding the document's content and
\* a record with pendingSaves 0 whose history is exactly one entry labelled
\* "created"
C20_Pre(d) ==
    /\ docs[d].ex
    /\ has_header(docs[d].c)
    /\ ~loc[d].ex
    /\ ~snp[d].ex

C20_Post(d) ==
    /\ snp'[d] = File(docs[d].c)
    /\ loc'[d].ex
    /\ loc'[d].data.meta.saves = 0
    /\ Len(loc'[d].data.history) = 1
    /\ loc'[d].data.history[1].action[2] = "created"

C20_CreateInitializesBoth ==
    [][ \A d \in Docs :
          (last'.op = "create" /\ last'.doc = d /\ C20_Pre(d)) => C20_Post(d) ]_vars

\* C19: a move event src -> dst for a tracked document relocates snapshot
\* and record: afterwards none exists under src; the record under dst holds
\* the former history followed by exactly one "renamed src -> dst" entry,
\* meta.file = dst and the same pendingSaves; the snapshot under dst holds
\* the former content; no save entry is appended
C19_Pre ==
    /\ moved # <<>>
    /\ snp[moved[1]].ex
    /\ loc[moved[1]].ex

C19_Post(src, dst) ==
    /\ ~snp'[src].ex
    /\ ~loc'[src].ex
    /\ snp'[dst] = snp[src]
    /\ loc'[dst].ex
    /\ loc'[dst].data.meta.file = get_relative_path(dst)
    /\ loc'[dst].data.meta.saves = loc[src].data.meta.saves
    /\ Len(loc'[dst].data.history) = Len(loc[src].data.history) + 1
    /\ SubSeq(loc'[dst].data.history, 1, Len(loc[src].data.history))
         = loc[src].data.history
    /\ LastEntry(loc'[dst].data).action
         = <<get_timestamp, "renamed " \o get_relative_path(src) \o " -> "
                              \o get_relative_path(dst)>>

C19_MoveRelocates ==
    [][ (last'.op = "rename" /\ C19_Pre) => C19_Post(moved[1], moved[2]) ]_vars

\* C18: after a repair every document with a header has a snapshot and a
\* record; a record the repair created has pendingSaves 0 and the single
\* entry "initialized", a snapshot it created holds the document's content,
\* snapshots and records that existed keep their content and history, and
\* no document is modified
C18_Post(d) ==
    /\ (docs[d].ex /\ has_header(docs[d].c)) =>
          /\ snp'[d].ex
          /\ loc'[d].ex
          /\ ~snp[d].ex => snp'[d].c = docs[d].c
          /\ ~loc[d].ex =>
                /\ loc'[d].data.meta.saves = 0
                /\ Len(loc'[d].data.history) = 1
                /\ loc'[d].data.history[1].action[2] = "initialized"
    /\ snp[d].ex => snp'[d] = snp[d]
    /\ loc[d].ex =>
          /\ loc'[d].ex
          /\ loc'[d].data.history = loc[d].data.history

C18_RepairCompletes ==
    [][ last'.op = "repair" => (docs' = docs /\ \A d \in Docs : C18_Post(d)) ]_vars

\* C14: archiving a record with n >= 1 entries leaves one new side-file
\* whose history is the record's n entries in order, a live history of
\* exactly one entry that references the side-file, the archive pointers
\* with the side-file's path appended, and meta.version and pendingSaves
\* unchanged; archiving a record with an empty history writes nothing
C14_NewSideFile(d, n) ==
    /\ ~acv[n].ex
    /\ acv'[n].ex
    /\ acv'[n].data.history = loc[d].data.history
    /\ \A o \in AcvNames \ {n} : acv'[o] = acv[o]
    /\ Len(loc'[d].data.history) = 1
    /\ loc'[d].data.history[1].action[2]
         = "archived " \o ToString(Len(loc[d].data.history)) \o " entries to "
           \o archive_name(n[1], n[2])
    /\ loc'[d].data.archive
         = Append(loc[d].data.archive, "./.dw/" \o archive_name(n[1], n[2]))

C14_Post(d) ==
    IF loc[d].ex /\ loc[d].data.history # <<>>
    THEN /\ \E n \in AcvNames : C14_NewSideFile(d, n)
         /\ loc'[d].data.meta.version = loc[d].data.meta.version
         /\ loc'[d].data.meta.saves = loc[d].data.meta.saves
    ELSE loc' = loc /\ acv' = acv

C14_ArchiveConservesHistory ==
    [][ \A d \in Docs :
          (last'.op = "archive" /\ last'.doc = d) => C14_Post(d) ]_vars

\* C15: every side-file an archive run writes holds, as persisted, the
\* provenance of the archived segment: the source key, the entry count and
\* the archive timestamp can be read back from its meta block
C15_Provenance(d, n) ==
    /\ FieldGet(acv'[n].raw, "source", "") = "./.dw/loc/" \o d \o ".txt"
    /\ FieldGet(acv'[n].raw, "entries", "") = ToString(Len(loc[d].data.history))
    /\ FieldGet(acv'[n].raw, "archived", "") = get_timestamp

C15_SideFileHoldsProvenance ==
    [][ \A d \in Docs : \A n \in AcvNames :
          (last'.op = "archive" /\ last'.doc = d /\ acv'[n] # acv[n])
             => C15_Provenance(d, n) ]_vars

\* C11: sync is idempotent: a sync run that directly follows a sync run,
\* with no document change in between, leaves the refVersions of every
\* record and the entries of the index as the first run left them
C11_SyncIdempotent ==
    [][ (last.op = "sync" /\ last'.op = "sync") =>
          /\ \A d \in Docs :
                loc'[d].data.meta.ref_versions = loc[d].data.meta.ref_versions
          /\ index'.ex = index.ex
          /\ Range(index'.tracked) = Range(index.tracked) ]_vars


\* the issues of a scan that are about the record of storage name d
IssuesOf(issues, d) == SelectSeq(issues, LAMBDA i : i.file = d)

\* C12: for a record whose document no longer exists, a scan reports
\* exactly one issue, ORPHAN and auto-fixable, and nothing else for that
\* record; after the fix (auto_fix, or the removal of all orphans) the record
\* no longer exists and the snapshot of that storage name is as it was
C12_Orphan(d) == loc[d].ex /\ ~docs[d].ex

C13_Threshold(config) ==
    IF config = ConfigText("0") THEN 0
    ELSE IF config = ConfigText("1") THEN 1
    ELSE IF config = ConfigText("2") THEN 2
    ELSE 100

Count(issues, d, type) ==
    Len(SelectSeq(issues, LAMBDA i : i.file = d /\ i.type = type))

declared_refs(c) == parse_refs(written_field(c, "refs"))

\* the revision the record of the document of a path holds, NoKey if none
current_revision(ref) ==
    IF DocOfPath(ref) # "" /\ loc[DocOfPath(ref)].ex
    THEN loc[DocOfPath(ref)].data.meta.version ELSE NoKey

C16_Broken(ref) == ~path_exists(ref)

C16_Stale(d, ref) ==
    /\ path_exists(ref)
    /\ rv_get(loc[d].data.meta.ref_versions, ref) # NoKey
    /\ current_revision(ref) # NoKey
    /\ current_revision(ref) # rv_get(loc[d].data.meta.ref_versions, ref)

C16_Post(d, issues, refs) ==
    /\ Count(issues, d, "BROKEN")
         = IF \E i \in 1..Len(refs) : C16_Broken(refs[i]) THEN 1 ELSE 0
    /\ Count(issues, d, "STALE")
         = IF \E i \in 1..Len(refs) : C16_Stale(d, refs[i]) THEN 1 ELSE 0
    /\ \A i \in 1..Len(issues) :
          issues[i].type \in {"BROKEN", "STALE"} => ~issues[i].fixable

\* C16: for a tracked document, a scan reports a BROKEN issue exactly when
\* a reference its header declares does not resolve to an existing
\* document, and a STALE issue exactly when a declared reference that exists
\* has a current revision different from the one captured in refVersions;
\* both are reported as not auto-fixable
C16_ScanClassifiesRefs ==
    [][ last'.op \in {"scan", "fix"} =>
          \A d \in Docs : Trackable(d) =>
             C16_Post(d, last'.issues, declared_refs(docs[d].c)) ]_vars

\* the number of issues of a scan that are not auto-fixable
Manual(issues) == Len(SelectSeq(issues, LAMBDA i : ~i.fixable))

\* d has issues, and all of them are STALE or BROKEN
C17_OnlyManual(issues, d) ==
    /\ IssuesOf(issues, d) # <<>>
    /\ \A i \in 1..Len(issues) :
          issues[i].file = d => issues[i].type \in {"STALE", "BROKEN"}

\* C17: a fix changes stored state only for ORPHAN and LARGE issues: no
\* document and no snapshot is written, a record changes only when it has
\* an ORPHAN or LARGE issue, a side-file is written only for a LARGE issue,
\* the record of a document whose only issues are STALE or BROKEN is
\* unchanged, and auto_fix counts every such issue as skipped
C17_FixOnlyAutoFixable ==
    [][ last'.op = "fix" =>
          /\ docs' = docs
          /\ snp' = snp
          /\ \A d \in Docs :
                /\ loc'[d] # loc[d] =>
                      Count(last'.issues, d, "ORPHAN")
                      + Count(last'.issues, d, "LARGE") > 0
                /\ C17_OnlyManual(last'.issues, d) => loc'[d] = loc[d]
          /\ \A n \in AcvNames :
                acv'[n] # acv[n] => Count(last'.issues, n[1], "LARGE") > 0
          /\ last'.out = "fixed" =>
                /\ last'.skipped = Manual(last'.issues)
                /\ last'.fixed = Len(last'.issues) - Manual(last'.issues) ]_vars

\* auto_fix ran on a list with a LARGE issue of one record and a STALE issue
\* of another document, fixed the first and skipped the second
C17_Witness ==
    /\ last.op = "fix"
    /\ last.out = "fixed"
    /\ last.fixed = 1
    /\ last.skipped = 1
    /\ \E d \in Docs : C17_OnlyManual(last.issues, d) /\ loc[d].ex

\* C29: revision arithmetic. For every valid revision id r, increment_r of
\* its text is the text of a revision id with the same base and major and
\* revision r.revision + 1, and increment_v of its text is the text of
\* [base r.base, major r.major + 1, revision 1]; parse_version accepts both
\* results.
C29_Accepted(text) ==
    /\ parse_version(text) # NoVersion
    /\ format_version(parse_version(text)) = text

C29_RevisionArithmetic ==
    /\ last.op = "increment_r" =>
          /\ C29_Accepted(last.res)
          /\ parse_version(last.res)
               = [last.arg EXCEPT !.revision = last.arg.revision + 1]
    /\ last.op = "increment_v" =>
          /\ C29_Accepted(last.res)
          /\ parse_version(last.res)
               = [base |-> last.arg.base, major |-> last.arg.major + 1,
                  revision |-> 1]

\* increment_v took zv9r10 to zv10r1
C29_Witness ==
    /\ last.op = "increment_v"
    /\ last.arg = [base |-> "z", major |-> 9, revision |-> 10]
    /\ last.res = "zv10r1"

\* C30: diff correctness. calc_diff(x, x) has no added and no removed line
\* and has_changes(x, x) is false; calc_diff("", y) has the lines of y, in
\* order, as added and nothing removed; in general the added lines are lines
\* of the new text and the removed lines are lines of the old text, each in
\* the order of its text, and the lines left over when they are taken out
\* (the unchanged ones) are the same sequence on both sides, so that no
\* unchanged line is reported.
Pick(seq, P) ==
    LET F[i \in 0..Len(seq)] ==
            IF i = 0 THEN <<>>
            ELSE IF i \in P THEN F[i - 1] \o <<seq[i]>> ELSE F[i - 1]
    IN  F[Len(seq)]

C30_Aligned(old, new, d) ==
    \E P \in SUBSET (1..Len(old)) :
        /\ Pick(old, P) = d.removed
        /\ \E Q \in SUBSET (1..Len(new)) :
              /\ Pick(new, Q) = d.added
              /\ Pick(old, (1..Len(old)) \ P) = Pick(new, (1..Len(new)) \ Q)

C28_Passed(d) ==
    save_record(d, read_loc(loc[d]),
                FieldGet(parse_header(read_file(docs[d])), "version", "av1r1"),
                get_timestamp, read_loc(loc[d]).meta.saves + 1,
                save_changes(calc_diff(read_file(snp[d]), read_file(docs[d]))))

C28_RecordRoundTrip ==
    [][\A d \in Docs :
          /\ (last'.op = "save" /\ last'.out = "saved" /\ last'.doc = d) =>
                read_loc(loc'[d]) = C28_Passed(d)
          /\ loc'[d].ex => Stored(read_loc(loc'[d])) = read_loc(loc'[d])]_vars

\* C27: codec round trip. For every document built with the builder
\* operations (add_block with scalar and list field values, lists of
\* length 0 and 1 included, set, add_container with fields, comments, added
\* and removed lines), parse(render(d)) is structurally equal to d: the same
\* blocks in the same order, the same fields with the same scalar or list
\* variant and values, the same containers, comments, added and removed.
C27_SameFields(f, g) ==
    /\ DOMAIN f = DOMAIN g
    /\ \A key \in DOMAIN f : f[key].list = g[key].list /\ f[key].v = g[key].v

C27_SameContainer(c, e) ==
    /\ C27_SameFields(c.fields, e.fields)
    /\ c.comments = e.comments /\ c.added = e.added /\ c.removed = e.removed

C27_SameBlock(b, e) ==
    /\ b.name = e.name
    /\ C27_SameFields(b.fields, e.fields)
    /\ b.comments = e.comments
    /\ Len(b.containers) = Len(e.containers)
    /\ \A j \in 1..Len(b.containers) :
          C27_SameContainer(b.containers[j], e.containers[j])

C27_Equal(d, e) ==
    Len(d) = Len(e) /\ \A i \in 1..Len(d) : C27_SameBlock(d[i], e[i])

C27_RoundTrip == last.op = "parse" => C27_Equal(last.res, last.arg)

\* C23: a record write is crash-safe: when the process is killed at any
\* point of the write_loc of a save, the record file afterwards reads as
\* the complete previous record or as the complete new record, never as
\* an empty or partly written one.
C23_CrashSafeWrite ==
    [][\A d \in Docs :
          (last'.op = "save" /\ last'.doc = d /\ last'.out = "killed")
          => \/ read_loc(loc'[d]) = read_loc(loc[d])
             \/ read_loc(loc'[d]) = read_loc(write_loc(save_data(d)))]_vars

\* C24: a save in which a read or a write fails advances no state: the
\* Record and the Snapshot both keep the values they had before the save
\* (so that the next detected change records the same diff once).
C24_Failed ==
    /\ last'.op = "save"
    /\ \E i \in 1..Len(SaveCalls) : last'.out = "OSError in " \o SaveCalls[i]

C24_FailedSaveAdvancesNothing ==
    [][C24_Failed => loc' = loc /\ snp' = snp]_vars

\* C21: a tick of the fallback poll writes no Record and no Snapshot; the
\* only write it can make is a rewrite of the most recently modified
\* trackable document with the content it has just read, and it makes it
\* only when that document is newer than its Snapshot or has another
\* number of lines.
C21_MostRecent(d, mtime) ==
    /\ docs[d].ex
    /\ has_header(docs[d].c)
    /\ \A e \in Docs : (docs[e].ex /\ has_header(docs[e].c)) => mtime[e] <= mtime[d]

C21_Lines(f) == IF f.c = <<>> \/ f.c = << <<>> >> THEN 0 ELSE Len(f.c)

C21_PollFrame ==
    [][last'.op = "poll" =>
          /\ loc' = loc /\ snp' = snp /\ acv' = acv /\ index' = index
          /\ docs' = docs
          /\ last'.written # <<>> =>
                LET d == last'.written[1]
                IN  /\ C21_MostRecent(d, last'.mtime)
                    /\ last'.written[2] = docs[d].c
                    /\ snp[d].ex
                    /\ \/ last'.mtime[d] # last'.snp_mtime
                       \/ C21_Lines(docs[d]) # C21_Lines(snp[d])]_vars

\* the poll rewrites a document that is as old as its Snapshot and has one
\* line more
C21_Witness ==
    /\ last.op = "poll"
    /\ last.out = "poked"
    /\ last.mtime[last.doc] = last.snp_mtime
    /\ Len(docs[last.doc].c) = Len(snp[last.doc].c) + 1

\* C22: the read-modify-write of a record by the save pipeline does not
\* interleave with another one of the same record: when the save writes,
\* the record on disk is the one it read, so that the history on disk is
\* kept as a prefix of the history written and no bump, sync or archive
\* made meanwhile is lost.
C22_SaveWrites ==
    /\ saving # <<>>
    /\ saving' = <<>>
    /\ last'.op = "save"
    /\ last'.out = "saved"

C22_SavesSerialized ==
    [][C22_SaveWrites =>
          /\ read_loc(loc[saving.doc]) = saving.loc_data
          /\ HistPrefix(read_loc(loc[saving.doc]).history,
                        read_loc(loc'[saving.doc]).history)]_vars

\* C25: at most one watcher is active in the folder at any time, whatever
\* the interleaving of the start and stop requests.
C25_Active(p) ==
    procs[p].pc = "running" /\ procs[p].observer /\ ~procs[p].signalled

C25_AtMostOneWatcher == Cardinality({p \in Pids : C25_Active(p)}) <= 1

\* C26: the watcher removes its liveness marker only after the dispatcher
\* and the poll have stopped: once the marker is gone the watcher dispatches
\* no further event and its poll rewrites no further document.
C26_Dispatches(p) == procs'[p].events > procs[p].events

C26_Rewrites(p) ==
    procs[p].poll = "tick" /\ last'.op = "poll" /\ last'.out = "poked"

C26_OrderedShutdown ==
    [][\A p \in Pids :
          (C26_Dispatches(p) \/ C26_Rewrites(p)) => pid_file = p]_vars

\* C34: the header fields the engine reads are the ones it writes: of a
\* document whose header create_header wrote and whose version and refs
\* update_field set, parse_header returns that version and those refs.
C34_HeaderReadsWhatIsWritten ==
    last.op = "parse_header" =>
        /\ "version" \in DOMAIN last.res
        /\ ~last.res["version"].list
        /\ last.res["version"].v = <<last.arg[2]>>
        /\ FieldGet(last.res, "refs", "") = last.arg[3]


\* C33: no archived history segment is ever overwritten: a step of any
\* operation leaves every side-file that exists as it is, so an archive run
\* writes a side-file path that no earlier archive used, also within the
\* same clock second
C33_NoSegmentOverwritten ==
    [][ \A n \in AcvNames : acv[n].ex => acv'[n] = acv[n] ]_vars


\* the "bumped" entries of a history
C35_Bumps(history) ==
    Len(SelectSeq(history, LAMBDA e : Len(e.action) = 2
                                       /\ Take(e.action[2], 6) = "bumped"))

C35_NotBefore(old, new) ==
    \/ old.major < new.major
    \/ old.major = new.major /\ old.revision <= new.revision

\* C35: the recorded revision never goes backwards: no save, bump or sync of
\* a document whose header is not edited by hand lowers the (major,
\* revision) pair of the record's meta.version, and after k bumps the
\* record's revision is the initial revision + k
C35_RevisionNeverGoesBack ==
    [][ (loc["a"].ex /\ loc'["a"].ex) =>
          /\ C35_NotBefore(parse_version(loc["a"].data.meta.version),
                           parse_version(loc'["a"].data.meta.version))
          /\ parse_version(loc'["a"].data.meta.version).revision
               = 1 + C35_Bumps(loc'["a"].data.history) ]_vars

\* C36: a bump is not itself recorded as an edit: the save run that the
\* bump's rewrite of the document header triggers, with no user edit in
\* between, appends no "save:N" entry and leaves pendingSaves at 0
C36_BumpIsNoEdit ==
    [][ (last.op = "bump" /\ last.out = "bumped" /\ last'.op = "save") =>
          /\ last'.out # "saved"
          /\ loc' = loc ]_vars


C31_Within(changes) ==
    /\ Len(SelectSeq(changes, LAMBDA c : c.type = "add")) <= max_lines
    /\ Len(SelectSeq(changes, LAMBDA c : c.type = "rem")) <= max_lines
    /\ \A i \in 1..Len(changes) :
          Len(changes[i].line) * TokenChars <= max_line_len

\* C31: recorded diffs are bounded: whatever the size of an edit, the entry
\* the save pipeline appends holds, as built and as the record stores it, at
\* most 50 add changes and at most 50 remove changes, each of at most 200
\* characters
C31_RecordedDiffBounded ==
    last.op = "save_changes" =>
        /\ C31_Within(last.res[1])
        /\ Len(last.res[2]) = 1
        /\ C31_Within(last.res[2][1].changes)


\* C39: a watcher's shutdown only clears its own bookkeeping: the step of a
\* watcher's shutdown that removes the liveness marker finds no marker or
\* the marker naming that watcher, never the marker a watcher started
\* after it has written, so the marker of a running watcher stays
C39_ShutdownClearsOwnMarker ==
    [][ \A p \in Pids :
          (procs[p].pc = "stamped" /\ procs'[p].pc = "unlinked")
             => pid_file \in {0, p} ]_vars


\* the poll loop of the watcher p is running and not told to stop
C40_Polling(p) == procs[p].poll # "off" /\ ~procs[p].poll_stop

\* C40: the poll controller: after every start_poll call a poll loop is
\* running and not flagged to stop, also when the call comes while the loop
\* stopped by an earlier stop_poll is still sleeping, and a running loop
\* keeps iterating until the next stop_poll call
C40_StartPollStarts ==
    [][ \A p \in Pids :
          /\ (last'.op = "start_poll" /\ procs[p].pc = "running")
                => C40_Polling(p)'
          /\ (C40_Polling(p) /\ procs'[p].pc = "running" /\ last'.op # "stop_poll")
                => C40_Polling(p)' ]_vars


\* C38: the poll's rewrite is content-preserving under interleaving: the
\* write of trigger_save leaves the document with the content it had just
\* before the write, the user's latest, also when a user save came between
\* the poll's read and its write
C38_PokePreservesContent ==
    [][ poking # <<>> /\ poking' = <<>> => docs' = docs ]_vars

\* the document d differs from its Snapshot
C32_Changed(d) ==
    docs[d].ex /\ has_header(read_file(docs[d])) /\ snp[d].ex
    /\ read_file(docs[d]) # read_file(snp[d])

\* C32: missed notifications are eventually caught: a tracked document that
\* was modified is eventually recorded, its Snapshot brought up to date,
\* also when its notification was dropped and another document is modified
\* afterwards
C32_MissedChangeCaught ==
    \A d \in Docs : C32_Changed(d) ~> ~C32_Changed(d)

\* C37: the poll quiesces: once the user edits have ended, a state is
\* reached after which the poll rewrites no document
C37_PollQuiesces == <>[][ ~(poking # <<>> /\ poking' = <<>>) ]_vars
====
